---- MODULE Spec2Model ----
(***************************************************************************)
(* Model of the in-memory user-management REST service (src/src/api.js)    *)
(* and of the browser-side wrapper that calls it                           *)
(* (src/public/api-client.js).                                             *)
(*                                                                         *)
(* A JSON string is a sequence of one-character strings, so that trimming, *)
(* lower-casing, parseInt and the e-mail syntax check are computed and not *)
(* assumed.  An optional value (a field that may be undefined) is a        *)
(* sequence of length at most one: None is << >>, Some(v) is <<v>>.        *)
(***************************************************************************)
EXTENDS Integers, Sequences, FiniteSets, TLC

VARIABLES users, nextId, now, req, resp, prev, assigned, deletedIds, posted,
          served, inflight, hits, call, wire, settled, cache, clock, fetched,
          ui, tasks, lastMutation, failures, pendingRequests, debounced

\* the state of the browser-side wrapper: the operation called last, what
\* came back over the network for it and how its promise settled
\* the response cache of the wrapper, the clock of the browser, and for
\* each filter set the getUsers response fetched last for it
cacheVars == <<cache, clock, fetched>>

\* the page controller and its handlers that are waiting on a promise
uiVars == <<ui, tasks>>

\* the Map pendingRequests of the caching wrapper and the calls of
\* debouncedRequest made so far
debounceVars == <<pendingRequests, debounced>>

\* the number, in the order of the server, of the last request of a
\* mutation that resolved, and the number of requests of the page that
\* fetch() failed to send
raceVars == <<lastMutation, failures>>

clientVars == <<call, wire, settled, cacheVars, uiVars, debounceVars, raceVars>>

vars == <<users, nextId, now, req, resp, prev, assigned, deletedIds, posted,
          served, inflight, hits, call, wire, settled, cache, clock, fetched,
          ui, tasks, lastMutation, failures, pendingRequests, debounced>>

(***************************************************************************)
(* Bounds of the model.                                                    *)
(***************************************************************************)
\* POST requests are issued only while nextId <= MaxNextId.
MaxNextId == 3
\* The clock readings are 0..MaxTime.
MaxTime == 0
\* Number of requests SpecWide serves.
MaxServed == 1
\* Number of requests that may be in flight together (SpecConc).
MaxInFlight == 2
\* Requests the observed client address sends in one window of the limiter.
MaxHits == 101

(***************************************************************************)
(* Optional values and characters.                                         *)
(***************************************************************************)
None == << >>

Some(v) == <<v>>

IsSome(o) == o # << >>

Get(o) == o[1]

Upper == <<"A","B","C","D","E","F","G","H","I","J","K","L","M",
           "N","O","P","Q","R","S","T","U","V","W","X","Y","Z">>

Lower == <<"a","b","c","d","e","f","g","h","i","j","k","l","m",
           "n","o","p","q","r","s","t","u","v","w","x","y","z">>

Digits == <<"0","1","2","3","4","5","6","7","8","9">>

Range(s) == {s[i] : i \in DOMAIN s}

Spaces == {" ", "\t", "\n"}

Letters == Range(Upper) \cup Range(Lower)

DigitChars == Range(Digits)

UpperChars == Range(Upper)

IsSpace(c) == c \in Spaces

IsLetter(c) == c \in Letters

IsDigit(c) == c \in DigitChars

DigitValue == [c \in DigitChars |-> (CHOOSE i \in DOMAIN Digits : Digits[i] = c) - 1]

DigitVal(c) == DigitValue[c]

LowerOf == [c \in UpperChars |-> Lower[CHOOSE i \in DOMAIN Upper : Upper[i] = c]]

ToLowerChar(c) == IF c \in UpperChars THEN LowerOf[c] ELSE c

ToLowerCase(s) == [i \in DOMAIN s |-> ToLowerChar(s[i])]

\* a string of n copies of the character c
Rep(c, n) == [i \in 1..n |-> c]

RECURSIVE TrimStart(_)
TrimStart(s) ==
    IF s = << >> \/ ~IsSpace(s[1]) THEN s ELSE TrimStart(Tail(s))

RECURSIVE TrimEnd(_)
TrimEnd(s) ==
    IF s = << >> \/ ~IsSpace(s[Len(s)]) THEN s ELSE TrimEnd(SubSeq(s, 1, Len(s) - 1))

\* String.prototype.trim / validator.trim: strip white space at both ends
Trim(s) == TrimEnd(TrimStart(s))

\* express-validator's toString: an undefined field validates as ''
ToStr(o) == IF IsSome(o) THEN Get(o) ELSE << >>

(***************************************************************************)
(* parseInt(string) in radix 10: leading white space is skipped, an        *)
(* optional sign is read, then the longest prefix of digits; NaN (None)    *)
(* when there is no digit.  The text after the digits is ignored.          *)
(***************************************************************************)
RECURSIVE DigitsValue(_, _, _)
DigitsValue(s, i, acc) ==
    IF i > Len(s) \/ ~IsDigit(s[i])
    THEN acc
    ELSE DigitsValue(s, i + 1, acc * 10 + DigitVal(s[i]))

RECURSIVE SkipSpaces(_, _)
SkipSpaces(s, i) ==
    IF i > Len(s) \/ ~IsSpace(s[i]) THEN i ELSE SkipSpaces(s, i + 1)

parseInt(s) ==
    LET start == SkipSpaces(s, 1)
        signed == start <= Len(s) /\ s[start] \in {"-", "+"}
        d == IF signed THEN start + 1 ELSE start
    IN IF d > Len(s) \/ ~IsDigit(s[d])
       THEN None
       ELSE IF signed /\ s[start] = "-"
            THEN Some(0 - DigitsValue(s, d, 0))
            ELSE Some(DigitsValue(s, d, 0))

isNaN(o) == o = None

(***************************************************************************)
(* Validation layer: the express-validator chains of POST and PUT.         *)
(***************************************************************************)
NameMin == 2

NameMax == 50

ValidRoles == {"user", "admin"}

\* s is a non-empty dot-separated list of non-empty atoms of characters in ok
DotAtoms(s, ok) ==
    /\ Len(s) > 0
    /\ s[1] # "." /\ s[Len(s)] # "."
    /\ \A i \in DOMAIN s : s[i] = "." \/ s[i] \in ok
    /\ \A i \in 1..(Len(s) - 1) : ~(s[i] = "." /\ s[i+1] = ".")

UserChars ==
    Letters \cup DigitChars
    \cup {"!", "#", "$", "%", "&", "+", "/", "=", "?", "^", "_", "|", "~", "-"}

HostChars == Letters \cup DigitChars \cup {"-"}

\* String.prototype.lastIndexOf, searching down from position i; 0 stands for -1
RECURSIVE LastIndexOf(_, _, _)
LastIndexOf(s, c, i) ==
    IF i = 0 THEN 0
    ELSE IF s[i] = c THEN i ELSE LastIndexOf(s, c, i - 1)

\* validator.isEmail with its defaults: user@domain, the domain a fully
\* qualified name whose last label has at least two letters
isEmail(s) ==
    LET at == LastIndexOf(s, "@", Len(s)) IN
    /\ at > 0
    /\ LET user == SubSeq(s, 1, at - 1)
           domain == SubSeq(s, at + 1, Len(s))
           lastDot == LastIndexOf(domain, ".", Len(domain))
       IN /\ DotAtoms(user, UserChars)
          /\ DotAtoms(domain, HostChars)
          /\ lastDot > 0
          /\ LET tld == SubSeq(domain, lastDot + 1, Len(domain))
             IN /\ Len(tld) >= 2
                /\ \A i \in DOMAIN tld : IsLetter(tld[i])
          /\ \A i \in DOMAIN domain :
                domain[i] = "-" =>
                   /\ i > 1 /\ i < Len(domain)
                   /\ domain[i-1] # "." /\ domain[i+1] # "."

\* validator.normalizeEmail with its defaults (all_lowercase) on an address
\* of a domain without provider-specific rules
normalizeEmail(s) == ToLowerCase(s)

NameError(body) ==
    LET v == Trim(ToStr(body.name)) IN
    IF Len(v) >= NameMin /\ Len(v) <= NameMax
    THEN << >>
    ELSE <<[param |-> "name", msg |-> "Name must be between 2 and 50 characters"]>>

EmailError(body) ==
    IF isEmail(ToStr(body.email))
    THEN << >>
    ELSE <<[param |-> "email", msg |-> "Valid email is required"]>>

\* mutation: the role chain left out, any role passes
RoleErrorNone(body) == << >>

RoleError(body) ==
    IF IsSome(body.role) /\ Get(body.role) \notin ValidRoles
    THEN <<[param |-> "role", msg |-> "Role must be either user or admin"]>>
    ELSE << >>

\* errors.array() after the chains of POST /users
CreateErrors(body) == NameError(body) \o EmailError(body) \o RoleError(body)

\* mutation: PUT without the chain on name
UpdateErrorsNoName(body) ==
    (IF IsSome(body.email) THEN EmailError(body) ELSE << >>) \o RoleError(body)

\* errors.array() after the chains of PUT /users/:id: optional() skips a
\* chain whose field is undefined
UpdateErrors(body) ==
    (IF IsSome(body.name) THEN NameError(body) ELSE << >>)
    \o (IF IsSome(body.email) THEN EmailError(body) ELSE << >>)
    \o RoleError(body)

\* mutation: the address is stored as typed, normalizeEmail() left out
CreateSanitizedRaw(body) ==
    [name |-> Some(Trim(ToStr(body.name))), email |-> body.email, role |-> body.role]

\* req.body after the sanitizers of POST: trim() and normalizeEmail()
CreateSanitized(body) ==
    [name |-> Some(Trim(ToStr(body.name))),
     email |-> Some(normalizeEmail(ToStr(body.email))),
     role |-> body.role]

\* req.body after the sanitizers of PUT: optional() skips undefined fields
UpdateSanitized(body) ==
    [name |-> IF IsSome(body.name) THEN Some(Trim(Get(body.name))) ELSE None,
     email |-> IF IsSome(body.email) THEN Some(normalizeEmail(Get(body.email))) ELSE None,
     role |-> body.role]

\* handleValidationErrors: the 400 envelope
ValidationFailed(errors) ==
    [status |-> 400, success |-> FALSE, error |-> "Validation failed", details |-> errors]

(***************************************************************************)
(* The store and the route handlers.  A store is [users, nextId]; a        *)
(* handler maps the store (and the clock reading t) to the store after the *)
(* request and the response, [users, nextId, resp].                        *)
(***************************************************************************)
SeedNextId == 3

DefaultLimit == 50

AdminName == <<"A","d","m","i","n"," ","U","s","e","r">>

TestName == <<"T","e","s","t"," ","U","s","e","r">>

AdminEmail == <<"a","d","m","i","n","@","e","x","a","m","p","l","e",".","c","o","m">>

TestEmail == <<"t","e","s","t","@","e","x","a","m","p","l","e",".","c","o","m">>

SeedUsers ==
    << [name |-> AdminName, email |-> AdminEmail, role |-> "admin", id |-> 1,
        createdAt |-> None, updatedAt |-> None],
       [name |-> TestName, email |-> TestEmail, role |-> "user", id |-> 2,
        createdAt |-> None, updatedAt |-> None] >>

Outcome(us, nid, r) == [users |-> us, nextId |-> nid, resp |-> r]

\* mutation: a malformed id reported as a missing record
InvalidIdAsNotFound == [status |-> 404, success |-> FALSE, error |-> "Invalid user ID format"]

InvalidId == [status |-> 400, success |-> FALSE, error |-> "Invalid user ID format"]

NotFound == [status |-> 404, success |-> FALSE, error |-> "User not found"]

EmailExists == [status |-> 409, success |-> FALSE, error |-> "Email already exists"]

\* mutation: the id taken for the position in the array
FindIndexAsPosition(us, userId) == IF userId \in DOMAIN us THEN userId ELSE 0

\* users.findIndex(u => u.id === userId): 0 stands for -1
FindIndex(us, userId) ==
    IF \E i \in DOMAIN us : us[i].id = userId
    THEN CHOOSE i \in DOMAIN us :
            /\ us[i].id = userId
            /\ \A j \in 1..(i-1) : us[j].id # userId
    ELSE 0

\* mutation: only the first record is compared
EmailTakenFirst(us, email) == us # << >> /\ us[1].email = email

\* users.find(u => u.email === email) is truthy
EmailTaken(us, email) == \E i \in DOMAIN us : us[i].email = email

\* mutation: find for filter, only the first match is kept
FilterRoleFirst(us, role) ==
    IF \E i \in DOMAIN us : us[i].role = role
    THEN <<us[CHOOSE i \in DOMAIN us :
                /\ us[i].role = role
                /\ \A j \in 1..(i-1) : us[j].role # role]>>
    ELSE << >>

\* users.filter(user => user.role === role)
RECURSIVE FilterRole(_, _)
FilterRole(us, role) ==
    IF us = << >> THEN << >>
    ELSE (IF Head(us).role = role THEN <<Head(us)>> ELSE << >>)
         \o FilterRole(Tail(us), role)

\* mutation: the end index taken as inclusive, one record too few
Slice0Short(s, end) ==
    LET n == IF isNaN(end) THEN 0
             ELSE IF Get(end) < 0
                  THEN (IF Len(s) + Get(end) > 0 THEN Len(s) + Get(end) ELSE 0)
                  ELSE (IF Get(end) < Len(s) THEN Get(end) ELSE Len(s))
    IN SubSeq(s, 1, n - 1)

\* Array.prototype.slice(0, end), end the result of parseInt
Slice0(s, end) ==
    LET n == IF isNaN(end) THEN 0
             ELSE IF Get(end) < 0
                  THEN (IF Len(s) + Get(end) > 0 THEN Len(s) + Get(end) ELSE 0)
                  ELSE (IF Get(end) < Len(s) THEN Get(end) ELSE Len(s))
    IN SubSeq(s, 1, n)

\* GET /users?role=&limit=
ListUsers(st, query) ==
    LET filteredUsers == IF IsSome(query.role) /\ Get(query.role) # ""
                         THEN FilterRole(st.users, Get(query.role))
                         ELSE st.users
        limit == IF IsSome(query.limit) THEN parseInt(Get(query.limit))
                 ELSE Some(DefaultLimit)
        limitedUsers == Slice0(filteredUsers, limit)
    IN Outcome(st.users, st.nextId,
               [status |-> 200, success |-> TRUE, data |-> limitedUsers,
                total |-> Len(filteredUsers), returned |-> Len(limitedUsers)])

\* GET /users/:id
GetUser(st, id) ==
    LET userId == parseInt(id) IN
    IF isNaN(userId) THEN Outcome(st.users, st.nextId, InvalidId)
    ELSE LET i == FindIndex(st.users, Get(userId)) IN
         IF i = 0 THEN Outcome(st.users, st.nextId, NotFound)
         ELSE Outcome(st.users, st.nextId,
                      [status |-> 200, success |-> TRUE, data |-> st.users[i]])

\* mutation: the id derived from the number of live records
AssignIdByCount(st) == [nextId |-> st.nextId + 1, id |-> Len(st.users) + 1]

\* id: nextId++ : the id given to the new record and the counter after it
AssignId(st) == [nextId |-> st.nextId + 1, id |-> st.nextId]

\* the handler of POST /users, on the sanitized body
CreateUser(st, body, t) ==
    LET email == Get(body.email) IN
    IF EmailTaken(st.users, email) THEN Outcome(st.users, st.nextId, EmailExists)
    ELSE LET newUser == [name |-> Get(body.name),
                         email |-> email,
                         role |-> IF IsSome(body.role) THEN Get(body.role) ELSE "user",
                         id |-> AssignId(st).id,
                         createdAt |-> Some(t),
                         updatedAt |-> None]
         IN Outcome(Append(st.users, newUser), AssignId(st).nextId,
                    [status |-> 201, success |-> TRUE,
                     data |-> newUser, message |-> "User created successfully"])

\* mutation: the record rebuilt from the body, a field the body leaves out
\* falling back to its default
MergeUserReplace(u, body, t) ==
    [name |-> IF IsSome(body.name) THEN Get(body.name) ELSE u.name,
     email |-> IF IsSome(body.email) THEN Get(body.email) ELSE u.email,
     role |-> IF IsSome(body.role) THEN Get(body.role) ELSE "user",
     id |-> u.id,
     createdAt |-> u.createdAt,
     updatedAt |-> Some(t)]

\* the assignments of PUT to users[userIndex]: each field the body defines,
\* then updatedAt
MergeUser(u, body, t) ==
    [name |-> IF IsSome(body.name) THEN Get(body.name) ELSE u.name,
     email |-> IF IsSome(body.email) THEN Get(body.email) ELSE u.email,
     role |-> IF IsSome(body.role) THEN Get(body.role) ELSE u.role,
     id |-> u.id,
     createdAt |-> u.createdAt,
     updatedAt |-> Some(t)]

\* the handler of PUT /users/:id, on the sanitized body
UpdateUser(st, id, body, t) ==
    LET userId == parseInt(id) IN
    IF isNaN(userId) THEN Outcome(st.users, st.nextId, InvalidId)
    ELSE LET userIndex == FindIndex(st.users, Get(userId)) IN
         IF userIndex = 0 THEN Outcome(st.users, st.nextId, NotFound)
         ELSE IF /\ IsSome(body.email) /\ Get(body.email) # << >>
                 /\ Get(body.email) # st.users[userIndex].email
                 /\ EmailTaken(st.users, Get(body.email))
              THEN Outcome(st.users, st.nextId, EmailExists)
              ELSE LET merged == MergeUser(st.users[userIndex], body, t)
                   IN Outcome([st.users EXCEPT ![userIndex] = merged], st.nextId,
                              [status |-> 200, success |-> TRUE,
                               data |-> merged, message |-> "User updated successfully"])

\* mutation: splice(index) without its count, the records after index go too
Splice1ToEnd(us, index) == SubSeq(us, 1, index - 1)

\* mutation: slice for splice, the array is left as it was
Splice1Keep(us, index) == us

\* users.splice(index, 1): the array without its element at index
Splice1(us, index) == SubSeq(us, 1, index - 1) \o SubSeq(us, index + 1, Len(us))

\* DELETE /users/:id
DeleteUser(st, id) ==
    LET userId == parseInt(id) IN
    IF isNaN(userId) THEN Outcome(st.users, st.nextId, InvalidId)
    ELSE LET userIndex == FindIndex(st.users, Get(userId)) IN
         IF userIndex = 0 THEN Outcome(st.users, st.nextId, NotFound)
         ELSE Outcome(Splice1(st.users, userIndex), st.nextId,
                      [status |-> 200, success |-> TRUE,
                       data |-> st.users[userIndex],
                       message |-> "User deleted successfully"])

\* mutation: the uniqueness check run before the validation result is read
PostRouteUniqueFirst(st, body, t) ==
    IF EmailTaken(st.users, normalizeEmail(ToStr(body.email)))
    THEN Outcome(st.users, st.nextId, EmailExists)
    ELSE IF CreateErrors(body) # << >>
         THEN Outcome(st.users, st.nextId, ValidationFailed(CreateErrors(body)))
         ELSE CreateUser(st, CreateSanitized(body), t)

\* POST /users: the validation chains, handleValidationErrors, the handler
PostRoute(st, body, t) ==
    IF CreateErrors(body) # << >>
    THEN Outcome(st.users, st.nextId, ValidationFailed(CreateErrors(body)))
    ELSE CreateUser(st, CreateSanitized(body), t)

\* PUT /users/:id: the validation chains, handleValidationErrors, the handler
PutRoute(st, id, body, t) ==
    IF UpdateErrors(body) # << >>
    THEN Outcome(st.users, st.nextId, ValidationFailed(UpdateErrors(body)))
    ELSE UpdateUser(st, id, UpdateSanitized(body), t)

\* max of the limiter: requests per address and window
RateMax == 100

\* the answer of express-rate-limit without a message or handler option: its
\* default text, sent with res.send
TooManyRequests ==
    [status |-> 429, text |-> "Too many requests, please try again later."]

\* GET /health; the body's status field is named health here, the record's
\* status being the HTTP status
Health(t) ==
    [status |-> 200, success |-> TRUE, health |-> "healthy", timestamp |-> t]

\* the '*' route after the routes of the API
EndpointNotFound ==
    [status |-> 404, success |-> FALSE, error |-> "Endpoint not found"]

\* the global error middleware, message as config.server.environment has it
InternalError(environment) ==
    [status |-> 500, success |-> FALSE, error |-> "Internal server error",
     message |-> IF environment = "development" THEN "error.message"
                 ELSE "Something went wrong"]

\* a request through its route
Serve(st, rq, t) ==
    CASE rq.method = "LIST" -> ListUsers(st, rq.query)
      [] rq.method = "GET" -> GetUser(st, rq.id)
      [] rq.method = "POST" -> PostRoute(st, rq.body, t)
      [] rq.method = "PUT" -> PutRoute(st, rq.id, rq.body, t)
      [] rq.method = "DELETE" -> DeleteUser(st, rq.id)

\* the middleware chain of the application for a request of an address with
\* h requests counted in the current window: the limiter, express.json
\* (a body it cannot parse goes to the error middleware), the routes
App(st, h, rq, t) ==
    IF h + 1 > RateMax THEN Outcome(st.users, st.nextId, TooManyRequests)
    ELSE CASE rq.method = "HEALTH" -> Outcome(st.users, st.nextId, Health(t))
           [] rq.method = "BADJSON" ->
                 Outcome(st.users, st.nextId, InternalError(rq.environment))
           [] rq.method = "OTHER" -> Outcome(st.users, st.nextId, EndpointNotFound)
           [] OTHER -> Serve(st, rq, t)

(***************************************************************************)
(* The requests the model sends.  Spec sends requests from small sets, in  *)
(* sequences of any length; SpecWide sends MaxServed requests from larger  *)
(* sets (invalid fields, boundary lengths, malformed ids and limits).      *)
(* SpecLimit follows the requests of one client address through the        *)
(* limiter, SpecClient the calls of the wrapper's operations.              *)
(***************************************************************************)
Opt(S) == {None} \cup {Some(v) : v \in S}

\* the body {}
EmptyBody == [name |-> None, email |-> None, role |-> None]

AnnEmail == <<"a","n","n","@","e","x","a","m","p","l","e",".","c","o","m">>

\* normalizes to the seed address test@example.com
MixedTestEmail == <<"T","e","s","t","@","E","x","a","m","p","l","e",".","c","o","m">>

BadEmail == <<"i","n","v","a","l","i","d","-","e","m","a","i","l">>

\* an address the pattern of the wrapper takes: its last label is one letter
ShortTldEmail == <<"a","@","b",".","c">>

\* trims to "Al"
PaddedName == <<" ","A","l"," ">>

Decimal(n) == <<Digits[n + 1]>>

PostBodies == [name : Opt({PaddedName}),
               email : {Some(AdminEmail), Some(MixedTestEmail), Some(AnnEmail)},
               role : Opt({"admin"})]

PutBodies == [name : {None},
              email : Opt({AdminEmail, MixedTestEmail, AnnEmail}),
              role : Opt({"admin"})]

\* :id path parameters: the decimal ids up to the largest one the model can
\* assign, and one that is no number
IdParams == { Decimal(n) : n \in 1..MaxNextId } \cup { <<"a","b","c">> }

Queries == [role : Opt({"user", "admin"}), limit : Opt({ <<"1">>, <<"2">> })]

WideNames == { <<"A">>, PaddedName, Rep("n", NameMax), Rep("n", NameMax + 1) }

WideBodies == [name : Opt(WideNames),
               email : Opt({AdminEmail, MixedTestEmail, AnnEmail, BadEmail}),
               role : Opt({"user", "admin", "invalid-role"})]

WideIdParams == IdParams \cup { <<"2","a","b","c">>, <<" ","2">> }

WideQueries == [role : Opt({"user", "admin", "", "guest"}),
                limit : Opt({ <<"1">>, <<"2">>, <<"0">>, <<"-","1">>, <<"x">> })]

Store == [users |-> users, nextId |-> nextId]

\* no request is being served
NoRequest == [method |-> "NONE"]

NoResponse == [status |-> 0]

NoSnapshot == [users |-> << >>]

\* no operation of the wrapper has been called
NoCall == [op |-> "none"]

\* nothing was sent
NoWire == [kind |-> "none"]

Pending == [kind |-> "pending"]

\* an empty Map
NoCache == [k \in {} |-> None]

\* the fields of UserManagementApp after its constructor; modal is the
\* aria-hidden attribute of the create/edit dialog, saving the disabled
\* attribute of its save button, error the message of the error state,
\* confirm the aria-hidden attribute of the delete confirmation, targetId
\* and deleting the data-user-id and the disabled attribute of its delete
\* button; listFilter and listStamp record where currentUsers came from
InitialUi ==
    [error |-> None, isLoading |-> FALSE, editingUserId |-> None,
     modal |-> "closed", currentFilter |-> "", saving |-> FALSE,
     currentUsers |-> << >>, listFilter |-> "", listStamp |-> 0, confirm |-> "closed",
     targetId |-> None, deleting |-> FALSE]

ReadsClock(rq, out) == rq.method \in {"POST", "PUT"} /\ out.resp.status \in {200, 201}

Ids(us) == {us[i].id : i \in DOMAIN us}

(***************************************************************************)
(* One request handled to completion.  prev, assigned, deletedIds and      *)
(* posted are history variables: the store and the histories as they were  *)
(* when the request being served arrived, the ids ever assigned, the ids   *)
(* whose DELETE was answered 200, and the records POST returned whose id   *)
(* no PUT or DELETE has addressed since.  hits is the limiter's count, in   *)
(* the current window, of the requests of one observed client address; the *)
(* requests of Spec, SpecWide and SpecConc come from addresses whose count *)
(* is below the ceiling, so the limiter passes them on.                    *)
(***************************************************************************)
\* the store, the response and the histories after request rq got outcome out
Record(rq, t, out) ==
    LET target == IF rq.method \in {"PUT", "DELETE"} THEN parseInt(rq.id) ELSE None
        kept == {r \in posted : target = None \/ r.id # Get(target)}
    IN /\ t = now \/ ReadsClock(rq, out)
       /\ users' = out.users
       /\ nextId' = out.nextId
       /\ resp' = out.resp
       /\ req' = rq
       /\ now' = t
       /\ prev' = [users |-> users, nextId |-> nextId, assigned |-> assigned,
                   deletedIds |-> deletedIds, posted |-> posted]
       /\ assigned' = assigned \cup Ids(out.users)
       /\ deletedIds' = IF rq.method = "DELETE" /\ out.resp.status = 200
                        THEN deletedIds \cup {out.resp.data.id}
                        ELSE deletedIds
       /\ posted' = IF rq.method = "POST" /\ out.resp.status = 201
                    THEN kept \cup {out.resp.data}
                    ELSE kept
       /\ UNCHANGED inflight

\* a request from an address the limiter has not counted up to its ceiling
Handled(rq, t) ==
    /\ req = NoRequest
    /\ \E out \in {Serve(Store, rq, t)} : Record(rq, t, out)
    /\ UNCHANGED <<hits, clientVars>>

ListReq(Q) ==
    \E q \in Q : Handled([query |-> q, method |-> "LIST"], now)

GetReq(I) ==
    \E id \in I : Handled([id |-> id, method |-> "GET"], now)

PostReq(B) ==
    /\ nextId <= MaxNextId
    /\ \E b \in B : \E t \in now..MaxTime :
          Handled([body |-> b, method |-> "POST"], t)

PutReq(I, B) ==
    \E id \in I : \E b \in B : \E t \in now..MaxTime :
       Handled([body |-> b, id |-> id, method |-> "PUT"], t)

DeleteReq(I) ==
    \E id \in I : Handled([id |-> id, method |-> "DELETE"], now)

\* the response has been sent: the request and response objects are dropped
Finish ==
    /\ req # NoRequest
    /\ req' = NoRequest
    /\ resp' = NoResponse
    /\ prev' = NoSnapshot
    /\ UNCHANGED <<users, nextId, now, assigned, deletedIds, posted, inflight,
                   hits, clientVars>>

Init ==
    /\ users = SeedUsers
    /\ nextId = SeedNextId
    /\ now = 0
    /\ req = NoRequest
    /\ resp = NoResponse
    /\ prev = NoSnapshot
    /\ assigned = Ids(SeedUsers)
    /\ deletedIds = {}
    /\ posted = {}
    /\ served = 0
    /\ inflight = << >>
    /\ hits = 0
    /\ call = NoCall
    /\ wire = NoWire
    /\ settled = Pending
    /\ cache = NoCache
    /\ clock = 0
    /\ fetched = NoCache
    /\ ui = InitialUi
    /\ tasks = << >>
    /\ lastMutation = 0
    /\ failures = 0
    /\ pendingRequests = NoCache
    /\ debounced = << >>

List == ListReq(Queries) /\ UNCHANGED served

GetOne == GetReq(IdParams) /\ UNCHANGED served

Post == PostReq(PostBodies) /\ UNCHANGED served

Put == PutReq(IdParams, PutBodies) /\ UNCHANGED served

Delete == DeleteReq(IdParams) /\ UNCHANGED served

EndRequest == Finish /\ UNCHANGED served

Next == List \/ GetOne \/ Post \/ Put \/ Delete \/ EndRequest

Spec == Init /\ [][Next]_vars

Count == served < MaxServed /\ served' = served + 1

WideList == ListReq(WideQueries) /\ Count

WideGetOne == GetReq(WideIdParams) /\ Count

WidePost == PostReq(WideBodies) /\ Count

WidePut == PutReq(WideIdParams, WideBodies) /\ Count

WideDelete == DeleteReq(WideIdParams) /\ Count

WideEndRequest == Finish /\ UNCHANGED served

NextWide ==
    WideList \/ WideGetOne \/ WidePost \/ WidePut \/ WideDelete \/ WideEndRequest

SpecWide == Init /\ [][NextWide]_vars

(***************************************************************************)
(* The requests of one client address, counted by the limiter (SpecLimit). *)
(***************************************************************************)
\* a request of the observed address goes through the application
Received(rq, t) ==
    /\ req = NoRequest
    /\ hits < MaxHits
    /\ hits' = hits + 1
    /\ \E out \in {App(Store, hits, rq, t)} : Record(rq, t, out)

LimitBodies ==
    { [name |-> Some(PaddedName), email |-> Some(AnnEmail), role |-> None],
      [name |-> Some(<<"A">>), email |-> Some(AnnEmail), role |-> None] }

LimitHealth ==
    /\ Received([method |-> "HEALTH"], now)
    /\ UNCHANGED <<served, clientVars>>

LimitList ==
    /\ Received([query |-> [role |-> None, limit |-> None], method |-> "LIST"], now)
    /\ UNCHANGED <<served, clientVars>>

LimitPost ==
    /\ nextId <= MaxNextId
    /\ \E b \in LimitBodies : Received([body |-> b, method |-> "POST"], now)
    /\ UNCHANGED <<served, clientVars>>

LimitDelete ==
    /\ Received([id |-> Decimal(2), method |-> "DELETE"], now)
    /\ UNCHANGED <<served, clientVars>>

\* a path no route matches
LimitOther ==
    /\ Received([method |-> "OTHER"], now)
    /\ UNCHANGED <<served, clientVars>>

\* a POST whose body express.json cannot parse
LimitBadJson ==
    /\ \E e \in {"development", "production"} :
          Received([environment |-> e, method |-> "BADJSON"], now)
    /\ UNCHANGED <<served, clientVars>>

\* windowMs has passed: the count of the address starts again
WindowEnds ==
    /\ req = NoRequest
    /\ call = NoCall
    /\ hits > 0
    /\ hits' = 0
    /\ UNCHANGED <<users, nextId, now, req, resp, prev, assigned, deletedIds,
                   posted, inflight, clientVars>>

LimitWindow == WindowEnds /\ UNCHANGED served

LimitEndRequest == Finish /\ UNCHANGED served

NextLimit ==
    \/ LimitHealth \/ LimitList \/ LimitPost \/ LimitDelete \/ LimitOther
    \/ LimitBadJson \/ LimitWindow \/ LimitEndRequest

SpecLimit == Init /\ [][NextLimit]_vars

(***************************************************************************)
(* The browser-side wrapper (api-client.js).  Each operation is an async   *)
(* function: what it throws before its first await rejects its promise.    *)
(* An operation is prepared into either a rejection or the request it      *)
(* sends; request() turns what the transport brings back into the          *)
(* settlement of the promise.  The userData argument is an optional value: *)
(* None stands for a call with null or undefined.                          *)
(***************************************************************************)
ApiError(message, status, details) ==
    [name |-> "ApiError", status |-> status, details |-> details, message |-> message]

\* what destructuring null or undefined throws
TypeError == [name |-> "TypeError"]

Rejected(e) == [error |-> e, kind |-> "rejected"]

Resolved(data) == [data |-> data, kind |-> "resolved"]

Sends(rq) == [rq |-> rq, kind |-> "send"]

\* !x for a string argument or field that may be undefined
Falsy(o) == o = None \/ Get(o) = << >>

\* the same for a role, which the model writes as a TLA+ string
FalsyRole(o) == o = None \/ Get(o) = ""

\* /^[^\s@]+@[^\s@]+\.[^\s@]+$/.test(s)
emailRegex(s) ==
    /\ \A i \in DOMAIN s : ~IsSpace(s[i])
    /\ Cardinality({i \in DOMAIN s : s[i] = "@"}) = 1
    /\ LET at == LastIndexOf(s, "@", Len(s))
       IN /\ at > 1
          /\ \E i \in (at + 2)..(Len(s) - 1) : s[i] = "."

\* mutation: the upper limit taken as exclusive
NameOutOfRangeStrict(name) == Len(Trim(name)) < 2 \/ Len(Trim(name)) >= 50

\* name.trim().length < 2 || name.trim().length > 50
NameOutOfRange(name) == Len(Trim(name)) < 2 \/ Len(Trim(name)) > 50

\* mutation: the address is checked before the name
validateUserDataEmailFirst(userData, isPartial) ==
    IF ~isPartial /\ Falsy(userData.email)
    THEN Some([message |-> "Email is required", field |-> "email"])
    ELSE IF IsSome(userData.email) /\ ~emailRegex(Get(userData.email))
    THEN Some([message |-> "Please enter a valid email address", field |-> "email"])
    ELSE IF ~isPartial /\ Falsy(userData.name)
    THEN Some([message |-> "Name is required", field |-> "name"])
    ELSE IF IsSome(userData.name) /\ NameOutOfRange(Get(userData.name))
    THEN Some([message |-> "Name must be between 2 and 50 characters",
               field |-> "name"])
    ELSE IF IsSome(userData.role) /\ Get(userData.role) \notin {"user", "admin"}
    THEN Some([message |-> "Role must be either \"user\" or \"admin\"", field |-> "role"])
    ELSE None

\* validateUserData of an object: the first violation, or null (None)
validateUserData(userData, isPartial) ==
    IF ~isPartial /\ Falsy(userData.name)
    THEN Some([message |-> "Name is required", field |-> "name"])
    ELSE IF IsSome(userData.name) /\ NameOutOfRange(Get(userData.name))
    THEN Some([message |-> "Name must be between 2 and 50 characters",
               field |-> "name"])
    ELSE IF ~isPartial /\ Falsy(userData.email)
    THEN Some([message |-> "Email is required", field |-> "email"])
    ELSE IF IsSome(userData.email) /\ ~emailRegex(Get(userData.email))
    THEN Some([message |-> "Please enter a valid email address", field |-> "email"])
    ELSE IF IsSome(userData.role) /\ Get(userData.role) \notin {"user", "admin"}
    THEN Some([message |-> "Role must be either \"user\" or \"admin\"", field |-> "role"])
    ELSE None

\* !id || isNaN(parseInt(id))
BadId(id) == id = << >> \/ isNaN(parseInt(id))

InvalidUserId == Rejected(ApiError("Invalid user ID", 400, None))

\* mutation: the payload is sent without the local check
ValidatedUnchecked(userData, isPartial, rq) ==
    IF userData = None THEN Rejected(TypeError) ELSE Sends(rq)

\* validateUserData(userData, isPartial) as its callers run it: the
\* destructuring of a null argument throws, a violation is thrown as an
\* ApiError, else the request rq is sent
Validated(userData, isPartial, rq) ==
    IF userData = None THEN Rejected(TypeError)
    ELSE LET validationError == validateUserData(Get(userData), isPartial) IN
         IF validationError # None
         THEN Rejected(ApiError("Validation error", 400, Some(<<Get(validationError)>>)))
         ELSE Sends(rq)

checkHealth == Sends([method |-> "HEALTH"])

getUsers(filters) ==
    Sends([query |-> [role |-> IF FalsyRole(filters.role) THEN None ELSE filters.role,
                      limit |-> IF Falsy(filters.limit) THEN None ELSE filters.limit],
           method |-> "LIST"])

getUser(id) ==
    IF BadId(id) THEN InvalidUserId ELSE Sends([id |-> id, method |-> "GET"])

createUser(userData) ==
    Validated(userData, FALSE,
              [body |-> IF userData = None THEN EmptyBody
                                           ELSE Get(userData), method |-> "POST"])

updateUser(id, userData) ==
    IF BadId(id) THEN InvalidUserId
    ELSE Validated(userData, TRUE,
                   [body |-> IF userData = None THEN EmptyBody ELSE Get(userData), id |-> id,
                    method |-> "PUT"])

deleteUser(id) ==
    IF BadId(id) THEN InvalidUserId ELSE Sends([id |-> id, method |-> "DELETE"])

\* fetch rejected: no response came back
FetchFailed == [kind |-> "failed"]

\* fetch resolved with the response r of the server
Fetched(r) == [resp |-> r, kind |-> "response"]

\* response.json() resolves: the body is JSON text
IsJson(r) == "text" \notin DOMAIN r

\* response.ok
Ok(r) == r.status \in 200..299

\* the parsed body of a JSON response: the envelope, without the status line
ParsedBody(r) == [f \in DOMAIN r \ {"status"} |-> r[f]]

NetworkError == ApiError("Network error or server unavailable", 0, None)

\* request(): the try block around fetch and response.json(), and its catch
request(w) ==
    IF w.kind = "failed" \/ ~IsJson(w.resp) THEN Rejected(NetworkError)
    ELSE LET data == ParsedBody(w.resp) IN
         IF ~Ok(w.resp)
         THEN Rejected(ApiError(IF "error" \in DOMAIN data /\ data.error # ""
                                THEN data.error ELSE "Request failed",
                                w.resp.status,
                                IF "details" \in DOMAIN data THEN Some(data.details)
                                ELSE None))
         ELSE Resolved(data)

\* operation c of the wrapper, prepared as p, runs until its promise settles
Calls(c, p) ==
    /\ call = NoCall
    /\ req = NoRequest
    /\ call' = c
    /\ \/ /\ p.kind = "rejected"
          /\ wire' = NoWire
          /\ settled' = p
          /\ UNCHANGED <<users, nextId, now, req, resp, prev, assigned, deletedIds,
                         posted, inflight, hits>>
       \/ /\ p.kind = "send"
          /\ wire' = FetchFailed
          /\ settled' = request(FetchFailed)
          /\ UNCHANGED <<users, nextId, now, req, resp, prev, assigned, deletedIds,
                         posted, inflight, hits>>
       \/ /\ p.kind = "send"
          /\ p.rq.method = "POST" => nextId <= MaxNextId
          /\ hits < MaxHits
          /\ hits' = hits + 1
          /\ \E out \in {App(Store, hits, p.rq, now)} :
                /\ Record(p.rq, now, out)
                /\ wire' = Fetched(out.resp)
                /\ settled' = request(Fetched(out.resp))

\* the caller has taken the settlement of the promise; the request and the
\* response objects of the call are dropped
Returns ==
    /\ call # NoCall
    /\ call' = NoCall
    /\ wire' = NoWire
    /\ settled' = Pending
    /\ req' = NoRequest
    /\ resp' = NoResponse
    /\ prev' = NoSnapshot
    /\ UNCHANGED <<users, nextId, now, assigned, deletedIds, posted, inflight, hits>>

ClientNames == { <<"A">>, PaddedName, Rep("n", 50), Rep("n", 51) }

\* the userData of the calls: null, objects with a name at and around the
\* limits, a taken address, a missing address, an address with a one-letter
\* last label, a role outside the two
ClientData ==
    {None}
    \cup { Some([name |-> n, email |-> Some(AnnEmail), role |-> None]) :
             n \in Opt(ClientNames) }
    \cup { Some([name |-> Some(PaddedName), email |-> e, role |-> r]) :
             e \in {None, Some(AdminEmail)}, r \in {None, Some("guest")} }
    \cup { Some([name |-> Some(PaddedName), email |-> Some(ShortTldEmail),
                 role |-> None]) }

ClientPatches ==
    { None, Some(EmptyBody),
      Some([name |-> Some(<<"A">>), email |-> None, role |-> None]),
      Some([name |-> Some(Rep("n", 50)), email |-> None, role |-> None]),
      Some([name |-> None, email |-> Some(AdminEmail), role |-> None]),
      Some([name |-> None, email |-> Some(ShortTldEmail), role |-> None]) }

ClientIds == { Decimal(2), Decimal(9), <<"a","b","c">>, << >> }

ClientFilters == [role : Opt({"admin", ""}), limit : {None}]

CallCheckHealth ==
    /\ Calls([op |-> "checkHealth"], checkHealth)
    /\ UNCHANGED <<served, cacheVars, uiVars, debounceVars, raceVars>>

CallGetUsers ==
    /\ \E f \in ClientFilters : Calls([op |-> "getUsers", filters |-> f], getUsers(f))
    /\ UNCHANGED <<served, cacheVars, uiVars, debounceVars, raceVars>>

CallGetUser ==
    /\ \E id \in ClientIds : Calls([id |-> id, op |-> "getUser"], getUser(id))
    /\ UNCHANGED <<served, cacheVars, uiVars, debounceVars, raceVars>>

CallCreateUser ==
    /\ \E d \in ClientData :
           Calls([op |-> "createUser", userData |-> d], createUser(d))
    /\ UNCHANGED <<served, cacheVars, uiVars, debounceVars, raceVars>>

CallUpdateUser ==
    /\ \E id \in ClientIds : \E d \in ClientPatches :
           Calls([id |-> id, op |-> "updateUser", userData |-> d], updateUser(id, d))
    /\ UNCHANGED <<served, cacheVars, uiVars, debounceVars, raceVars>>

CallDeleteUser ==
    /\ \E id \in ClientIds : Calls([id |-> id, op |-> "deleteUser"], deleteUser(id))
    /\ UNCHANGED <<served, cacheVars, uiVars, debounceVars, raceVars>>

ClientWindow == WindowEnds /\ UNCHANGED served

ClientReturns == Returns /\ UNCHANGED <<served, cacheVars, uiVars, debounceVars, raceVars>>

NextClient ==
    \/ CallCheckHealth \/ CallGetUsers \/ CallGetUser \/ CallCreateUser
    \/ CallUpdateUser \/ CallDeleteUser \/ ClientWindow \/ ClientReturns

SpecClient == Init /\ [][NextClient]_vars

(***************************************************************************)
(* The synchronous functions of the wrapper, applied to arguments drawn    *)
(* from bounded sets (SpecPure): validateUserData and                      *)
(* ApiError.getUserMessage.  call holds the application, settled the value *)
(* it returned.                                                            *)
(***************************************************************************)
Returned(v) == [kind |-> "returned", value |-> v]

\* a || b for two strings
OrElse(a, b) == IF a # "" THEN a ELSE b

\* field f of the object d, "" when d has no such field
Field(d, f) == IF f \in DOMAIN d THEN d[f] ELSE ""

\* ApiError.getUserMessage()
getUserMessage(e) ==
    CASE e.status = 0 ->
           "Impossible de se connecter au serveur. Vérifiez que l'API est démarrée."
      [] e.status = 400 ->
           IF e.details # None /\ Len(Get(e.details)) > 0
           THEN OrElse(Field(Get(e.details)[1], "msg"),
                       OrElse(Field(Get(e.details)[1], "message"), e.message))
           ELSE e.message
      [] e.status = 404 -> "Ressource non trouvée."
      [] e.status = 409 -> "Cette adresse email est déjà utilisée."
      [] e.status = 429 -> "Trop de requêtes. Veuillez patienter avant de réessayer."
      [] e.status = 500 -> "Erreur du serveur. Veuillez réessayer plus tard."
      [] OTHER -> e.message

PureNames == { << >>, <<"A">>, PaddedName, Rep("n", 50), Rep("n", 51) }

PureEmails == { << >>, AnnEmail, BadEmail, ShortTldEmail }

PureRoles == { "", "user", "guest" }

PureData == [name : Opt(PureNames), email : Opt(PureEmails), role : Opt(PureRoles)]

PureStatuses == { 0, 400, 404, 409, 418, 429, 500, 503 }

PureMessages == { "Request failed", "Validation failed" }

PureDetails ==
    { None, Some(<< >>),
      Some(<<[message |-> "Name is required", field |-> "name"]>>),
      Some(<<[msg |-> "Invalid email format", path |-> "email"],
             [msg |-> "Role must be user or admin", path |-> "role"]>>),
      Some(<<[path |-> "email"]>>) }

PureErrors == { ApiError(m, s, d) : m \in PureMessages, s \in PureStatuses, d \in PureDetails }

\* f(args) is applied and returns v
Applies(c, v) ==
    /\ call' = c
    /\ settled' = Returned(v)
    /\ UNCHANGED <<users, nextId, now, req, resp, prev, assigned, deletedIds,
                   posted, served, inflight, hits, wire, cacheVars, uiVars, debounceVars, raceVars>>

ApplyValidateUserData ==
    \E d \in PureData : \E isPartial \in BOOLEAN :
       Applies([op |-> "validateUserData", userData |-> d, isPartial |-> isPartial],
               validateUserData(d, isPartial))

ApplyGetUserMessage ==
    \E e \in PureErrors :
       Applies([error |-> e, op |-> "getUserMessage"], getUserMessage(e))

NextPure == ApplyValidateUserData \/ ApplyGetUserMessage

SpecPure == Init /\ [][NextPure]_vars

(***************************************************************************)
(* The response cache (ApiCache) and the caching wrapper                   *)
(* (CachedApiClient), SpecCache.  cache maps a key to {value, timestamp};  *)
(* the key of getUsers, 'users-' + JSON.stringify(filters), is written as  *)
(* the filters themselves.  clock is Date.now() in the browser.  The       *)
(* operations are called one after the other: each runs until its promise  *)
(* settles.  call.cache is the cache as the call found it, and fetched[f], *)
(* written when the caller takes the result, is the response getUsers(f)   *)
(* last fetched from the server, when, and whether a mutation has          *)
(* succeeded since.                                                        *)
(***************************************************************************)
\* the default ttl of ApiCache, in milliseconds
Ttl == 30000

\* the clock readings: 0 and, for each of MaxWindows ttl periods, its end
\* and the millisecond before and after
MaxWindows == 1

Instants == {0} \cup { k * Ttl + d : k \in 1..MaxWindows, d \in {-1, 0, 1} }

\* at most MaxRequests requests of the caching wrapper reach the server
MaxRequests == 3

\* fetch() fails to send MaxFailures requests of the page at most.
MaxFailures == 1

\* Number of requests after which the user starts no handler under SpecApp.
MaxUserRequests == 2

\* m.set(key, item) and m.delete(key) of a Map
MapSet(m, key, item) == [k \in DOMAIN m \cup {key} |-> IF k = key THEN item ELSE m[k]]

MapDelete(m, key) == [k \in DOMAIN m \ {key} |-> m[k]]

\* ApiCache.set at the clock reading t
CacheSet(c, key, value, t) == MapSet(c, key, [timestamp |-> t, value |-> value])

\* Date.now() - item.timestamp > this.ttl
Expired(item, t) == t - item.timestamp > Ttl

\* ApiCache.get at the clock reading t: the value returned (None for null)
\* and the cache it leaves
CacheGet(c, key, t) ==
    IF key \notin DOMAIN c THEN [cache |-> c, value |-> None]
    ELSE IF Expired(c[key], t) THEN [cache |-> MapDelete(c, key), value |-> None]
    ELSE [cache |-> c, value |-> Some(c[key].value)]

\* mutation: the cache is cleared whether the mutation succeeded or not
ClearedAfterAlways(c, s) == NoCache

\* await super.op(...); this.cache.clear(): the cache after an operation
\* that settled as s
ClearedAfter(c, s) == IF s.kind = "resolved" THEN NoCache ELSE c

\* mutation: a cached response is looked up but not used
CacheHitNever(got) == FALSE

\* if (cached)
CacheHit(got) == got.value # None

\* CachedApiClient.getUsers(filters)
CachedGetUsers(f) ==
    LET c == [cache |-> cache, op |-> "getUsers", filters |-> f]
        got == CacheGet(cache, f, clock)
    IN IF CacheHit(got)
       THEN /\ call = NoCall
            /\ req = NoRequest
            /\ call' = c
            /\ wire' = NoWire
            /\ settled' = Resolved(Get(got.value))
            /\ cache' = got.cache
            /\ UNCHANGED <<users, nextId, now, req, resp, prev, assigned, deletedIds,
                           posted, inflight, hits>>
       ELSE /\ Calls(c, getUsers(f))
            /\ hits' <= MaxRequests
            /\ cache' = IF settled'.kind = "resolved"
                        THEN CacheSet(got.cache, f, settled'.data, clock)
                        ELSE got.cache

\* createUser, updateUser, deleteUser of CachedApiClient: the operation p of
\* the base class, then the cache cleared if it resolved
CachedMutation(c, p) ==
    /\ Calls(c, p)
    /\ hits' <= MaxRequests
    /\ cache' = ClearedAfter(cache, settled')

\* cache.get(key) by itself
CacheLookup(key) ==
    /\ call = NoCall
    /\ call' = [cache |-> cache, op |-> "cache.get", key |-> key]
    /\ wire' = NoWire
    /\ settled' = Returned(CacheGet(cache, key, clock).value)
    /\ cache' = CacheGet(cache, key, clock).cache
    /\ UNCHANGED <<users, nextId, now, req, resp, prev, assigned, deletedIds,
                   posted, inflight, hits>>

\* the record of the responses fetched, after the call that just settled
Fetches(h) ==
    IF call.op = "getUsers" /\ wire # NoWire /\ settled.kind = "resolved"
    THEN MapSet(h, call.filters, [at |-> clock, data |-> settled.data, mutated |-> FALSE])
    ELSE IF call.op \in {"createUser", "updateUser", "deleteUser"}
            /\ settled.kind = "resolved"
    THEN [k \in DOMAIN h |-> [h[k] EXCEPT !.mutated = TRUE]]
    ELSE h

CacheFilters == { [role |-> None, limit |-> None], [role |-> Some("admin"), limit |-> None] }

\* a new user, a name that is too short, an address that is taken
CacheData ==
    { Some([name |-> Some(n), email |-> Some(e), role |-> None]) :
        <<n, e>> \in { <<PaddedName, AnnEmail>>, <<(<<"A">>), AnnEmail>>,
                       <<PaddedName, AdminEmail>> } }

CachePatches == { Some([name |-> Some(n), email |-> None, role |-> None]) :
                    n \in { PaddedName, <<"A">> } }

CacheIds == { Decimal(2), Decimal(9) }

CacheGetUsers ==
    /\ \E f \in CacheFilters : CachedGetUsers(f)
    /\ UNCHANGED <<served, clock, fetched, uiVars, debounceVars, raceVars>>

CacheCreateUser ==
    /\ \E d \in CacheData :
          CachedMutation([cache |-> cache, op |-> "createUser", userData |-> d],
                         createUser(d))
    /\ UNCHANGED <<served, clock, fetched, uiVars, debounceVars, raceVars>>

CacheUpdateUser ==
    /\ \E d \in CachePatches :
          CachedMutation([cache |-> cache, id |-> Decimal(1), op |-> "updateUser",
                          userData |-> d],
                         updateUser(Decimal(1), d))
    /\ UNCHANGED <<served, clock, fetched, uiVars, debounceVars, raceVars>>

CacheDeleteUser ==
    /\ \E id \in CacheIds :
          CachedMutation([cache |-> cache, id |-> id, op |-> "deleteUser"],
                         deleteUser(id))
    /\ UNCHANGED <<served, clock, fetched, uiVars, debounceVars, raceVars>>

CacheGetKey ==
    /\ \E f \in CacheFilters : CacheLookup(f)
    /\ UNCHANGED <<served, clock, fetched, uiVars, debounceVars, raceVars>>

\* time passes between two calls
Tick ==
    /\ call = NoCall
    /\ \E t \in Instants : t > clock /\ clock' = t
    /\ UNCHANGED <<users, nextId, now, req, resp, prev, assigned, deletedIds,
                   posted, served, inflight, hits, call, wire, settled, cache,
                   fetched, uiVars, debounceVars, raceVars>>

CacheReturns ==
    /\ Returns
    /\ fetched' = Fetches(fetched)
    /\ UNCHANGED <<served, cache, clock, uiVars, debounceVars, raceVars>>

NextCache ==
    \/ CacheGetUsers \/ CacheCreateUser \/ CacheUpdateUser \/ CacheDeleteUser
    \/ CacheGetKey \/ Tick \/ CacheReturns

SpecCache == Init /\ [][NextCache]_vars

(***************************************************************************)
(* The page controller (UserManagementApp, app.js), SpecUi.  ui holds the  *)
(* fields of the controller and the attributes of the page that its        *)
(* handlers read.  An async handler runs to its next await in one step;    *)
(* tasks holds the handlers that are waiting on a promise of the wrapper:  *)
(* [handler, awaits, ...] with awaits the operation awaited.  The promise  *)
(* settles in a later step, resolved or rejected, and the handler runs on  *)
(* to its next await or to its end.  call is the handler that ran last,    *)
(* with the ui and the tasks it found.  detached marks a submission whose  *)
(* dialog has been closed or opened again since.                           *)
(***************************************************************************)
\* at most MaxTasks handlers wait on a promise at once
MaxTasks == 2

UiIds == {1, 2}

UiFilters == {"", "admin"}

Settlements == {"resolved", "rejected"}

\* an element of a list that is null
Null == [name |-> "null"]

\* the settlement s of a promise of the wrapper, with the stamp of the
\* response of the server it carries (0: none)
Stamped(s, n) ==
    IF s.kind = "resolved" THEN [data |-> s.data, kind |-> "resolved", stamp |-> n]
    ELSE [error |-> s.error, kind |-> "rejected", stamp |-> n]

\* response.data || []
ListOf(data) == IF "data" \in DOMAIN data THEN data.data ELSE << >>

\* renderUsers() returns: it throws a TypeError on an element that is null
Renders(list) == \A k \in DOMAIN list : list[k] # Null

\* setLoadingState(loading)
setLoadingState(u, loading) == [u EXCEPT !.isLoading = loading]

\* setSubmitLoading(loading): the save button, nothing else
setSubmitLoading(u, loading) == [u EXCEPT !.saving = loading]

\* setDeleteLoading(loading): the delete button of the confirmation
setDeleteLoading(u, loading) == [u EXCEPT !.deleting = loading]

\* showError(message) and hideError(): the error state of the list
showError(u, message) == [u EXCEPT !.error = Some(message)]

hideError(u) == [u EXCEPT !.error = None]

\* showUserModal(user): user is None for a new user, else the id of user
showUserModal(u, user) == [u EXCEPT !.editingUserId = user, !.modal = "open"]

\* mutation: the dialog is hidden, the id being edited is kept
hideUserModalKeepsId(u) == [u EXCEPT !.modal = "closed"]

\* hideUserModal()
hideUserModal(u) == [u EXCEPT !.modal = "closed", !.editingUserId = None]

\* hideConfirmModal(): data-user-id of the delete button stays as it is
hideConfirmModal(u) == [u EXCEPT !.confirm = "closed"]

\* the submissions in flight no longer belong to the dialog on the page
Detach(ts) ==
    [i \in DOMAIN ts |->
        IF ts[i].awaits \in {"createUser", "updateUser"}
        THEN [ts[i] EXCEPT !.detached = TRUE] ELSE ts[i]]

RemoveAt(ts, i) == SubSeq(ts, 1, i - 1) \o SubSeq(ts, i + 1, Len(ts))

\* the handler waits on the promise of operation awaits; response is what
\* the promise will settle as, once that is known
Task(handler, awaits, arg) ==
    [awaits |-> awaits, detached |-> FALSE, handler |-> handler, arg |-> arg,
     response |-> Pending]

\* mutation: loadUsers without its guard
LoadGuardOff(u) == FALSE

\* if (this.isLoading) return, in loadUsers
LoadGuard(u) == u.isLoading

\* if (this.isLoading) return, in handleFormSubmit
SubmitGuard(u) == u.isLoading

\* the finally block of the handler that called loadUsers, if any
Finally(handler, u) ==
    CASE handler = "handleFormSubmit" -> setSubmitLoading(u, FALSE)
      [] handler = "confirmDelete" -> setDeleteLoading(u, FALSE)
      [] OTHER -> u

\* mutation: the finally block of loadUsers leaves isLoading as it is
LoadEndsLoading(handler, u) == Finally(handler, u)

\* the finally block of loadUsers, then the rest of the handler that
\* awaited it
LoadEnds(handler, u) == Finally(handler, setLoadingState(u, FALSE))

\* loadUsers() called from handler in the state [ui, tasks], up to its
\* await of getUsers: the state it leaves, with the task that waits
loadUsers(st, handler) ==
    IF LoadGuard(st.ui) THEN [ui |-> Finally(handler, st.ui), tasks |-> st.tasks]
    ELSE [ui |-> hideError(setLoadingState(st.ui, TRUE)),
          tasks |-> Append(st.tasks,
                           Task(handler, "getUsers", st.ui.currentFilter))]

\* mutation: the catch block of loadUsers calls loadUsers again
LoadCatchRetries(st, i, error) ==
    IF error.name # "ApiError"
    THEN [ui |-> LoadEnds(st.tasks[i].handler, st.ui), tasks |-> RemoveAt(st.tasks, i)]
    ELSE [ui |-> showError(st.ui, getUserMessage(error)),
          tasks |-> [st.tasks EXCEPT
                       ![i] = Task(st.tasks[i].handler, "getUsers", st.tasks[i].arg)]]

\* the catch block of loadUsers for the error thrown in its try block:
\* error.getUserMessage() throws in its turn unless error is an ApiError,
\* else the error state is shown and checkApiHealth() awaited
LoadCatch(st, i, error) ==
    IF error.name # "ApiError"
    THEN [ui |-> LoadEnds(st.tasks[i].handler, st.ui), tasks |-> RemoveAt(st.tasks, i)]
    ELSE [ui |-> showError(st.ui, getUserMessage(error)),
          tasks |-> [st.tasks EXCEPT
                       ![i] = Task(st.tasks[i].handler, "checkHealth", st.tasks[i].arg)]]

\* the try block of loadUsers after getUsers resolved as s; listFilter and
\* listStamp record the filter and the response the list came from
LoadTry(st, i, s) ==
    LET task == st.tasks[i]
        list == ListOf(s.data)
        shown == [st.ui EXCEPT !.currentUsers = list, !.listFilter = task.arg,
                               !.listStamp = s.stamp]
    IN IF Renders(list)
       THEN [ui |-> LoadEnds(task.handler, shown), tasks |-> RemoveAt(st.tasks, i)]
       ELSE LoadCatch([ui |-> shown, tasks |-> st.tasks], i, TypeError)

\* handleFormSubmit() up to its await; valid is what validateForm() returns
handleFormSubmit(st, valid) ==
    IF SubmitGuard(st.ui) \/ ~valid THEN st
    ELSE [ui |-> setSubmitLoading(st.ui, TRUE),
          tasks |-> Append(st.tasks,
                           IF st.ui.editingUserId # None
                           THEN Task("handleFormSubmit", "updateUser",
                                     Get(st.ui.editingUserId))
                           ELSE Task("handleFormSubmit", "createUser", 0))]

\* editUser(userId) up to its await of getUser
editUser(st, userId) ==
    [ui |-> st.ui, tasks |-> Append(st.tasks, Task("editUser", "getUser", userId))]

\* mutation: the dialog opens for any id
showDeleteConfirmAny(st, userId) ==
    [ui |-> [st.ui EXCEPT !.targetId = Some(userId), !.confirm = "open"],
     tasks |-> st.tasks]

\* showDeleteConfirm(userId): find() goes through currentUsers up to the
\* first user with the id, and throws on an element that is null
showDeleteConfirm(st, userId) ==
    LET list == st.ui.currentUsers
        stops == {k \in DOMAIN list : list[k] = Null \/ list[k].id = userId}
    IN IF stops # {} /\ list[CHOOSE k \in stops : \A j \in stops : k <= j] # Null
       THEN [ui |-> [st.ui EXCEPT !.targetId = Some(userId), !.confirm = "open"],
             tasks |-> st.tasks]
       ELSE st

\* confirmDelete() up to its await of deleteUser
confirmDelete(st) ==
    IF st.ui.targetId = None THEN st
    ELSE [ui |-> setDeleteLoading(st.ui, TRUE),
          tasks |-> Append(st.tasks,
                           Task("confirmDelete", "deleteUser", Get(st.ui.targetId)))]

\* the promise that task i waits on settles as s and its handler runs on
Resumes(st, i, s) ==
    LET task == st.tasks[i]
        rest == RemoveAt(st.tasks, i)
    IN CASE task.awaits = "getUsers" /\ s.kind = "resolved" -> LoadTry(st, i, s)
         [] task.awaits = "getUsers" /\ s.kind = "rejected" -> LoadCatch(st, i, s.error)
         [] task.awaits = "checkHealth" ->
              [ui |-> LoadEnds(task.handler, st.ui), tasks |-> rest]
         [] task.awaits \in {"createUser", "updateUser"} /\ s.kind = "resolved" ->
              loadUsers([ui |-> hideUserModal(st.ui), tasks |-> Detach(rest)],
                        "handleFormSubmit")
         [] task.awaits \in {"createUser", "updateUser"} /\ s.kind = "rejected" ->
              [ui |-> setSubmitLoading(st.ui, FALSE), tasks |-> rest]
         [] task.awaits = "getUser" /\ s.kind = "resolved" ->
              [ui |-> showUserModal(st.ui, Some(task.arg)), tasks |-> Detach(rest)]
         [] task.awaits = "getUser" /\ s.kind = "rejected" ->
              [ui |-> st.ui, tasks |-> rest]
         [] task.awaits = "deleteUser" /\ s.kind = "resolved" ->
              loadUsers([ui |-> hideConfirmModal(st.ui), tasks |-> rest],
                        "confirmDelete")
         [] task.awaits = "deleteUser" /\ s.kind = "rejected" ->
              [ui |-> setDeleteLoading(st.ui, FALSE), tasks |-> rest]

Page == [ui |-> ui, tasks |-> tasks]

\* the handler op ran, with argument arg, and left the page as st
Runs(op, arg, st) ==
    /\ Len(st.tasks) <= MaxTasks
    /\ call' = [ui |-> ui, tasks |-> tasks, op |-> op, arg |-> arg]
    /\ ui' = st.ui
    /\ tasks' = st.tasks
    /\ UNCHANGED <<users, nextId, now, req, resp, prev, assigned, deletedIds,
                   posted, inflight, hits, wire, settled, cacheVars, debounceVars,
                   raceVars>>

\* the refresh button, the retry button, Ctrl+R, the loadUsers of init()
ClickRefresh ==
    /\ Runs("loadUsers", "", loadUsers(Page, "loadUsers"))
    /\ UNCHANGED served

\* handleFilterChange(role)
ChangeFilter ==
    /\ \E role \in UiFilters :
          Runs("handleFilterChange", role,
               loadUsers([ui |-> [ui EXCEPT !.currentFilter = role], tasks |-> tasks],
                         "loadUsers"))
    /\ UNCHANGED served

\* the add button, Ctrl+N
ClickAdd ==
    /\ Runs("showUserModal", None,
            [ui |-> showUserModal(ui, None), tasks |-> Detach(tasks)])
    /\ UNCHANGED served

\* the edit button of a row
ClickEdit ==
    /\ \E id \in UiIds : Runs("editUser", id, editUser(Page, id))
    /\ UNCHANGED served

\* the close button, the cancel button, the backdrop, Escape
CloseModal ==
    /\ Runs("hideUserModal", "", [ui |-> hideUserModal(ui), tasks |-> Detach(tasks)])
    /\ UNCHANGED served

\* the submit event of the form of the open dialog
SubmitForm ==
    /\ ui.modal = "open"
    /\ \E valid \in BOOLEAN :
          Runs("handleFormSubmit", valid, handleFormSubmit(Page, valid))
    /\ UNCHANGED served

\* a list of the server, and a list with a null element
UiLists == { SeedUsers, <<Null>> }

\* what the promise of a task may settle as, whatever the server does
UiSettlements(task) ==
    { Stamped(Rejected(NetworkError), 0) }
    \cup IF task.awaits = "getUsers"
         THEN { Stamped(Resolved([success |-> TRUE, data |-> l]), 0) : l \in UiLists }
         ELSE { Stamped(Resolved([success |-> TRUE]), 0) }

\* the promise that task i waits on settles
SettleTask(i) ==
    /\ i \in DOMAIN tasks
    /\ \E s \in UiSettlements(tasks[i]) :
          \E st \in { Resumes(Page, i, s) } :
             Runs("resume", [task |-> tasks[i], settlement |-> s.kind], st)

\* a promise of the wrapper settles
Settle ==
    /\ \E i \in DOMAIN tasks : SettleTask(i)
    /\ UNCHANGED served

NextUi ==
    \/ ClickRefresh \/ ChangeFilter \/ ClickAdd \/ ClickEdit \/ CloseModal
    \/ SubmitForm \/ Settle

SpecUi == Init /\ [][NextUi]_vars

\* every promise of the wrapper settles
SpecUiFair ==
    /\ SpecUi
    /\ \A i \in 1..MaxTasks : WF_vars(SettleTask(i) /\ UNCHANGED served)

(***************************************************************************)
(* debouncedRequest (CachedApiClient, api-client.js), SpecDebounce.        *)
(* debounced[i] is the i-th call: its key, the clock reading at which it   *)
(* arrived, its timer (armed, cleared, fired), its requestFn (idle,        *)
(* running, settled) and the promise it returned (pending, resolved,       *)
(* rejected).  pendingRequests maps a key to the call whose entry          *)
(* {timeoutId, resolve, reject} the Map holds.  A timer fires at or after  *)
(* its deadline, never before it.                                          *)
(***************************************************************************)
\* the default of the delay parameter
Delay == 300

\* at most MaxCalls calls of debouncedRequest
MaxCalls == 3

\* the clock advances by TimeStep up to MaxClock
TimeStep == 150

MaxClock == 900

DebounceKeys == { "users", "health" }

\* the call that arrives at the clock reading t: setTimeout armed its timer
NewCall(key, t) ==
    [at |-> t, key |-> key, timer |-> "armed", fn |-> "idle", promise |-> "pending"]

\* if (this.pendingRequests.has(key)) clearTimeout(...get(key).timeoutId):
\* clearing a timer that has fired does nothing
ClearTimeout(d, pr, key) ==
    IF key \in DOMAIN pr /\ d[pr[key]].timer = "armed"
    THEN [d EXCEPT ![pr[key]].timer = "cleared"]
    ELSE d

\* debouncedRequest(key, requestFn) with the default delay
debouncedRequest(key) ==
    /\ Len(debounced) < MaxCalls
    /\ clock + Delay <= MaxClock
    /\ debounced' = Append(ClearTimeout(debounced, pendingRequests, key),
                           NewCall(key, clock))
    /\ pendingRequests' = MapSet(pendingRequests, key, Len(debounced) + 1)
    /\ UNCHANGED clock

\* the callback of setTimeout up to its await: requestFn() is called
TimerCallback(i) ==
    /\ debounced[i].timer = "armed"
    /\ clock >= debounced[i].at + Delay
    /\ debounced' = [debounced EXCEPT ![i].timer = "fired", ![i].fn = "running"]
    /\ UNCHANGED <<pendingRequests, clock>>

\* the rest of the callback, after requestFn() settled:
\* this.pendingRequests.delete(key), then resolve(result) or reject(error)
AfterRequestFn(i, s) ==
    /\ debounced[i].fn = "running"
    /\ debounced' = [debounced EXCEPT ![i].fn = "settled", ![i].promise = s]
    /\ pendingRequests' = MapDelete(pendingRequests, debounced[i].key)
    /\ UNCHANGED clock

DebounceUnchanged ==
    UNCHANGED <<users, nextId, now, req, resp, prev, assigned, deletedIds, posted,
                served, inflight, hits, call, wire, settled, cache, fetched,
                uiVars, raceVars>>

CallDebounced ==
    /\ \E key \in DebounceKeys : debouncedRequest(key)
    /\ DebounceUnchanged

TimerFires ==
    /\ \E i \in 1..Len(debounced) : TimerCallback(i)
    /\ DebounceUnchanged

RequestFnSettles ==
    /\ \E i \in 1..Len(debounced) : \E s \in {"resolved", "rejected"} :
          AfterRequestFn(i, s)
    /\ DebounceUnchanged

TimePasses ==
    /\ clock + TimeStep <= MaxClock
    /\ clock' = clock + TimeStep
    /\ UNCHANGED <<pendingRequests, debounced>>
    /\ DebounceUnchanged

NextDebounce == CallDebounced \/ TimerFires \/ RequestFnSettles \/ TimePasses

SpecDebounce == Init /\ [][NextDebounce]_vars

\* time passes, the event loop runs the callback of every timer that is due,
\* and every requestFn that was called settles
SpecDebounceFair ==
    /\ SpecDebounce
    /\ WF_vars(TimePasses)
    /\ WF_vars(TimerFires)
    /\ WF_vars(RequestFnSettles)

(***************************************************************************)
(* The page, the caching wrapper and the server together (SpecApp).  A     *)
(* handler of the page runs to its next await as under SpecUi; the call of *)
(* the wrapper it awaits is made in the same step: getUsers looks in the   *)
(* cache, createUser and updateUser check the payload, and a request that  *)
(* is sent reaches the server, which answers it from the store as it is    *)
(* then (or fetch fails); served counts the requests sent.  A promise that *)
(* settles without a request                                               *)
(* (cached response, local rejection) resumes its handler in the same      *)
(* step, as a microtask does.  The response of a request travels back as   *)
(* tasks[i].response and arrives in a later step, in any order: the        *)
(* wrapper then sets or clears its cache and the handler runs on.          *)
(* hits + 1 stamps the response of the server; fetched[key] is the stamp   *)
(* of the response cached under key, lastMutation the greatest stamp of a  *)
(* create, update or delete whose promise resolved.  call holds the        *)
(* handler that ran last, the requests it sent and, for every getUsers     *)
(* promise that resolved in the step, the stamp of the response it gave    *)
(* and the value lastMutation had when getUsers was called.                *)
(***************************************************************************)
\* the user whose deletion is asked for: the administrator, whom both lists
\* show until the deletion
AppIds == {1}

\* the payload of the form: a new administrator the first time, a taken
\* address after
AppData ==
    { [name |-> Some(<<"A","l">>), email |-> Some(AnnEmail), role |-> Some("admin")] }

\* const filters = {}; if (this.currentFilter) filters.role = this.currentFilter
Filters(role) == [role |-> IF role = "" THEN None ELSE Some(role), limit |-> None]

World ==
    [users |-> users, nextId |-> nextId, served |-> served, hits |-> hits,
     cache |-> cache, fetched |-> fetched, ui |-> ui, tasks |-> tasks,
     lastMutation |-> lastMutation, failures |-> failures,
     returned |-> << >>, sent |-> << >>, resumed |-> FALSE, budget |-> 0]

\* the payloads a task may send: the form for createUser and updateUser
Payloads(task) ==
    IF task.awaits \in {"createUser", "updateUser"} THEN AppData ELSE {EmptyBody}

\* the operation of ApiClient that the task awaits, called with userData d
Prepared(task, d) ==
    CASE task.awaits = "getUsers" -> getUsers(Filters(task.arg))
      [] task.awaits = "checkHealth" -> checkHealth
      [] task.awaits = "getUser" -> getUser(Decimal(task.arg))
      [] task.awaits = "createUser" -> createUser(Some(d))
      [] task.awaits = "updateUser" -> updateUser(Decimal(task.arg), Some(d))
      [] task.awaits = "deleteUser" -> deleteUser(Decimal(task.arg))

\* the task whose call of the wrapper has not been made, 0 if there is none
Uncalled(ts) ==
    IF \E i \in DOMAIN ts : ts[i].response = Pending
    THEN CHOOSE i \in DOMAIN ts : ts[i].response = Pending
    ELSE 0

\* what a promise settles as: the settlement, the stamp of the response of
\* the server, whether a request was sent, lastMutation at the call
Response(s, n, sent, after) ==
    [stamp |-> n, settlement |-> s, sent |-> sent, after |-> after]

\* request() sends rq: fetch fails, which it does MaxFailures times at most,
\* or the server answers from its store.  A handler that the user starts
\* sends its request while fewer than budget requests were sent; the
\* requests of a handler that resumes (loadUsers after a mutation, the
\* health check after a failure) are sent whatever their number.  Here and below a
\* value that is used more than once is bound through a singleton set, so
\* that it is computed once.
Exchange(w0, rq0) ==
    UNION {
      IF \/ ~w.resumed /\ w.served >= w.budget
         \/ rq.method = "POST" /\ w.nextId > MaxNextId
      THEN {}
      ELSE UNION {
             { [response |-> Response(request(FetchFailed), 0, TRUE, w.lastMutation),
                world |-> [w EXCEPT !.sent = Append(@, rq.method),
                                    !.served = @ + 1,
                                    !.failures = @ + 1]]
               : ok \in IF w.failures < MaxFailures THEN {FALSE} ELSE {} }
             \cup
             { [response |-> Response(request(Fetched(out.resp)), w.hits + 1, TRUE,
                                      w.lastMutation),
                world |-> [w EXCEPT !.sent = Append(@, rq.method),
                                    !.served = @ + 1,
                                    !.users = out.users, !.nextId = out.nextId,
                                    !.hits = w.hits + 1]] }
             : out \in { App([users |-> w.users, nextId |-> w.nextId], w.hits, rq,
                             now) } }
      : w \in {w0}, rq \in {rq0} }

RECURSIVE Dispatch(_)

\* the promise of task i settles as r: the rest of the operation of
\* CachedApiClient (cache.set, cache.clear), then the handler, then the call
\* the handler makes next
Continue(w0, i, r0) ==
    UNION {
      LET task == w.tasks[i]
          s == r.settlement
          key == Filters(task.arg)
          stored == task.awaits = "getUsers" /\ r.sent /\ s.kind = "resolved"
          mutated == /\ task.awaits \in {"createUser", "updateUser", "deleteUser"}
                     /\ s.kind = "resolved"
      IN UNION {
           Dispatch([w EXCEPT
              !.resumed = TRUE,
              !.ui = st.ui,
              !.tasks = st.tasks,
              !.cache = IF stored THEN CacheSet(w.cache, key, s.data, clock)
                        ELSE IF mutated THEN ClearedAfter(w.cache, s)
                        ELSE @,
              !.fetched = IF stored THEN MapSet(w.fetched, key, r.stamp)
                          ELSE IF mutated THEN NoCache
                          ELSE @,
              !.lastMutation = IF mutated /\ r.stamp > @ THEN r.stamp ELSE @,
              !.returned = IF task.awaits = "getUsers" /\ s.kind = "resolved"
                           THEN Append(@, [stamp |-> r.stamp, after |-> r.after])
                           ELSE @])
           : st \in { Resumes([ui |-> w.ui, tasks |-> w.tasks], i,
                              Stamped(s, r.stamp)) } }
      : w \in {w0}, r \in {r0} }

\* the call of the wrapper that a handler has just reached is made
Dispatch(w0) ==
    UNION {
      LET i == Uncalled(w.tasks) IN
      IF i = 0 THEN {w}
      ELSE LET task == w.tasks[i]
               key == Filters(task.arg)
               got == CacheGet(w.cache, key, clock)
           IN IF task.awaits = "getUsers" /\ CacheHit(got)
              THEN Continue([w EXCEPT !.cache = got.cache], i,
                            Response(Resolved(Get(got.value)), w.fetched[key], FALSE,
                                     w.lastMutation))
              ELSE UNION {
                     IF p.kind = "rejected"
                     THEN Continue(IF task.awaits = "getUsers"
                                   THEN [w EXCEPT !.cache = got.cache] ELSE w,
                                   i, Response(p, 0, FALSE, w.lastMutation))
                     ELSE { [x.world EXCEPT !.tasks[i].response = x.response] :
                               x \in Exchange(IF task.awaits = "getUsers"
                                              THEN [w EXCEPT !.cache = got.cache]
                                              ELSE w,
                                              p.rq) }
                     : p \in { Prepared(task, d) : d \in Payloads(task) } }
      : w \in {w0} }

\* the handler op ran, with argument arg, and left the page as st; the call
\* it reached was made and left w
AppLeaves(op, arg, w) ==
    /\ Len(w.tasks) <= MaxTasks
    /\ call' = [returned |-> w.returned, op |-> op, arg |-> arg, sent |-> w.sent]
    /\ ui' = w.ui
    /\ tasks' = w.tasks
    /\ cache' = w.cache
    /\ fetched' = w.fetched
    /\ users' = w.users
    /\ nextId' = w.nextId
    /\ hits' = w.hits
    /\ served' = w.served
    /\ lastMutation' = w.lastMutation
    /\ failures' = w.failures
    /\ UNCHANGED <<req, resp, prev, assigned, deletedIds, posted, inflight,
                   wire, settled, clock, debounceVars>>

\* a handler that the user starts, max being the budget of requests
AppRuns(max, op, arg, st) ==
    \E w \in Dispatch([World EXCEPT !.budget = max, !.ui = st.ui,
                                    !.tasks = st.tasks]) :
       AppLeaves(op, arg, w)

\* the refresh button, the retry button, Ctrl+R, the loadUsers of init()
AppRefresh(max) ==
    /\ AppRuns(max, "loadUsers", "", loadUsers(Page, "loadUsers"))
    /\ UNCHANGED now

\* handleFilterChange(role)
AppFilter(max) ==
    /\ \E role \in UiFilters :
          AppRuns(max, "handleFilterChange", role,
                       loadUsers([ui |-> [ui EXCEPT !.currentFilter = role],
                                  tasks |-> tasks], "loadUsers"))
    /\ UNCHANGED now

\* the add button, Ctrl+N
AppAdd(max) ==
    /\ AppRuns(max, "showUserModal", None,
                    [ui |-> showUserModal(ui, None), tasks |-> Detach(tasks)])
    /\ UNCHANGED now

\* the edit button of a row of the table
AppEdit(max) ==
    /\ \E k \in DOMAIN ui.currentUsers :
          AppRuns(max, "editUser", ui.currentUsers[k].id,
                       editUser(Page, ui.currentUsers[k].id))
    /\ UNCHANGED now

\* the close button, the cancel button and the backdrop of the form dialog
AppClose(max) ==
    /\ ui.modal = "open"
    /\ AppRuns(max, "hideUserModal", "",
                    [ui |-> hideUserModal(ui), tasks |-> Detach(tasks)])
    /\ UNCHANGED now

\* the submit event of the form of the open dialog, the form being valid
AppSubmit(max) ==
    /\ ui.modal = "open"
    /\ AppRuns(max, "handleFormSubmit", TRUE, handleFormSubmit(Page, TRUE))
    /\ UNCHANGED now

\* showDeleteConfirm(userId): the delete button of a row, or any other call
AppShowDelete(max) ==
    /\ \E id \in AppIds :
          AppRuns(max, "showDeleteConfirm", id, showDeleteConfirm(Page, id))
    /\ UNCHANGED now

\* the cancel button and the backdrop of the delete confirmation
AppCancelDelete(max) ==
    /\ ui.confirm = "open"
    /\ AppRuns(max, "hideConfirmModal", "",
                    [ui |-> hideConfirmModal(ui), tasks |-> tasks])
    /\ UNCHANGED now

\* the Escape key: hideUserModal(), then hideConfirmModal()
AppEscape(max) ==
    /\ AppRuns(max, "escape", "",
                    [ui |-> hideConfirmModal(hideUserModal(ui)), tasks |-> Detach(tasks)])
    /\ UNCHANGED now

\* the markup of the page, which app.js does not hold: the delete button
\* confirm-delete-btn is an element of the dialog confirm-modal, so that it
\* is clicked only while the dialog is shown; a disabled button gets no click
DeleteButtonClickable(u) == u.confirm = "open" /\ ~u.deleting

\* a click on the delete button of the delete confirmation
AppConfirmDelete(max) ==
    /\ DeleteButtonClickable(ui)
    /\ AppRuns(max, "confirmDelete", ui.targetId, confirmDelete(Page))
    /\ UNCHANGED now

\* the response of the request of task i arrives
AppSettleTask(i) ==
    /\ i \in DOMAIN tasks
    /\ \E w \in Continue(World, i, tasks[i].response) :
          AppLeaves("resume", [task |-> tasks[i].awaits,
                               settlement |-> tasks[i].response.settlement.kind],
                    w)

AppSettle ==
    /\ \E i \in DOMAIN tasks : AppSettleTask(i)
    /\ UNCHANGED now

NextApp(max) ==
    \/ AppRefresh(max) \/ AppFilter(max) \/ AppAdd(max) \/ AppEdit(max)
    \/ AppClose(max) \/ AppSubmit(max) \/ AppShowDelete(max)
    \/ AppCancelDelete(max) \/ AppEscape(max) \/ AppConfirmDelete(max)
    \/ AppSettle

\* the user starts handlers until MaxUserRequests requests were sent
SpecApp == Init /\ [][NextApp(MaxUserRequests)]_vars

\* the same with one more request, which three calls in flight together take
SpecAppRace == Init /\ [][NextApp(MaxRequests)]_vars

\* the response of every request arrives
SpecAppFair ==
    /\ SpecAppRace
    /\ \A i \in 1..MaxTasks : WF_vars(AppSettleTask(i) /\ UNCHANGED now)

(***************************************************************************)
(* Requests in flight together (SpecConc).  The validation chains of POST  *)
(* and PUT are asynchronous middleware: between them and the handler the   *)
(* event loop may run the middleware and the handlers of other requests.   *)
(* A handler is synchronous code, so it runs to its response in one step.  *)
(* inflight[i] is [pc, rq, body, t, resp]: the position of request i in    *)
(* its middleware chain, the request, req.body as the sanitizers left it,  *)
(* the clock reading of its handler and its response.                      *)
(***************************************************************************)
ConcRequests ==
    { [body |-> b, id |-> << >>, method |-> "POST"] :
         b \in [name : Opt({PaddedName}),
                email : {Some(AnnEmail), Some(MixedTestEmail)},
                role : {None}] }
    \cup { [body |-> [name |-> None, email |-> Some(AnnEmail), role |-> None], id |-> Decimal(2),
            method |-> "PUT"] }
    \cup { [body |-> EmptyBody, id |-> Decimal(n), method |-> "DELETE"] : n \in {2, 3} }

HasValidators(rq) == rq.method \in {"POST", "PUT"}

\* a request reaches the server
Arrive(rq) ==
    /\ Len(inflight) < MaxInFlight
    /\ inflight' = Append(inflight, [resp |-> NoResponse, body |-> rq.body, t |-> 0,
                                     rq |-> rq, pc |-> "received"])
    /\ UNCHANGED <<users, nextId, now>>

\* the validation chains and handleValidationErrors of request i
Validate(i) ==
    /\ inflight[i].pc = "received"
    /\ HasValidators(inflight[i].rq)
    /\ LET rq == inflight[i].rq
           errors == IF rq.method = "POST" THEN CreateErrors(rq.body)
                     ELSE UpdateErrors(rq.body)
           clean == IF rq.method = "POST" THEN CreateSanitized(rq.body)
                    ELSE UpdateSanitized(rq.body)
       IN inflight' = [inflight EXCEPT ![i] =
                         IF errors # << >>
                         THEN [@ EXCEPT !.pc = "done", !.resp = ValidationFailed(errors)]
                         ELSE [@ EXCEPT !.pc = "validated", !.body = clean]]
    /\ UNCHANGED <<users, nextId, now>>

\* the handler of request i, on the sanitized body
RunHandler(st, rq, body, t) ==
    CASE rq.method = "POST" -> CreateUser(st, body, t)
      [] rq.method = "PUT" -> UpdateUser(st, rq.id, body, t)
      [] rq.method = "DELETE" -> DeleteUser(st, rq.id)

\* request i is answered with out, its handler having read the clock at t
Answer(i, out, t) ==
    /\ t = now \/ ReadsClock(inflight[i].rq, out)
    /\ users' = out.users
    /\ nextId' = out.nextId
    /\ now' = t
    /\ inflight' = [inflight EXCEPT ![i] = [@ EXCEPT !.pc = "done", !.resp = out.resp, !.t = t]]

\* mutation: the POST handler yields to the event loop between its
\* uniqueness check and its insert
HandleSplit(i) ==
    LET rq == inflight[i].rq IN
    \/ /\ inflight[i].pc = "received" /\ ~HasValidators(rq)
       /\ \E out \in {RunHandler(Store, rq, inflight[i].body, now)} : Answer(i, out, now)
    \/ /\ inflight[i].pc = "validated" /\ rq.method = "PUT"
       /\ \E t \in now..MaxTime :
             \E out \in {RunHandler(Store, rq, inflight[i].body, t)} : Answer(i, out, t)
    \/ /\ inflight[i].pc = "validated" /\ rq.method = "POST"
       /\ IF EmailTaken(users, Get(inflight[i].body.email))
          THEN Answer(i, Outcome(users, nextId, EmailExists), now)
          ELSE /\ inflight' = [inflight EXCEPT ![i] = [@ EXCEPT !.pc = "checked"]]
               /\ UNCHANGED <<users, nextId, now>>
    \/ /\ inflight[i].pc = "checked"
       /\ \E t \in now..MaxTime :
             \E out \in {CreateUser([users |-> << >>, nextId |-> nextId],
                                    inflight[i].body, t)} :
                Answer(i, [out EXCEPT !.users = users \o out.users], t)

\* the route handler of request i runs, from its first statement to res.json
Handle(i) ==
    /\ \/ inflight[i].pc = "validated"
       \/ inflight[i].pc = "received" /\ ~HasValidators(inflight[i].rq)
    /\ \E t \in now..MaxTime :
          \E out \in {RunHandler(Store, inflight[i].rq, inflight[i].body, t)} :
             Answer(i, out, t)

ConcArrive ==
    /\ \E rq \in ConcRequests : Arrive(rq)
    /\ UNCHANGED <<req, resp, prev, assigned, deletedIds, posted, served,
                   hits, clientVars>>

ConcValidate ==
    /\ \E i \in DOMAIN inflight : Validate(i)
    /\ UNCHANGED <<req, resp, prev, assigned, deletedIds, posted, served,
                   hits, clientVars>>

ConcHandle ==
    /\ \E i \in DOMAIN inflight : Handle(i)
    /\ UNCHANGED <<req, resp, prev, assigned, deletedIds, posted, served,
                   hits, clientVars>>

NextConc == ConcArrive \/ ConcValidate \/ ConcHandle

SpecConc == Init /\ [][NextConc]_vars

(***************************************************************************)
(* Properties of the store under sequences of requests.                    *)
(***************************************************************************)
Unchanged == users = prev.users /\ nextId = prev.nextId

\* the positions of the live records that held e-mail e when the request arrived
HoldersBefore(e) == {i \in DOMAIN prev.users : prev.users[i].email = e}

\* the position, when the request arrived, of the record the :id addresses (0: none)
AddressedBefore ==
    IF isNaN(parseInt(req.id)) THEN {}
    ELSE {i \in DOMAIN prev.users : prev.users[i].id = Get(parseInt(req.id))}

\* C1: in every state reachable by POST, PUT and DELETE requests from the
\* two seed records, no two live records have the same email.
C1_EmailsUnique ==
    \A i, j \in DOMAIN users : i # j => users[i].email # users[j].email

\* a new user registered with the address the seed administrator held first
C1_Witness ==
    /\ req.method = "POST" /\ resp.status = 201
    /\ resp.data.email = AdminEmail
    /\ Len(users) >= 2
    /\ \E i \in DOMAIN users : users[i].updatedAt # None

\* C2: a valid POST whose email is that of a live record, and a valid PUT on
\* an existing id whose email is that of a different live record, is
\* answered 409 'Email already exists' and leaves users and nextId as they
\* were.
C2_ConflictLeavesStore ==
    /\ ( /\ req.method = "POST"
         /\ CreateErrors(req.body) = << >>
         /\ HoldersBefore(normalizeEmail(Get(req.body.email))) # {} )
       => (resp.status = 409 /\ resp.error = "Email already exists" /\ Unchanged)
    /\ ( /\ req.method = "PUT"
         /\ UpdateErrors(req.body) = << >>
         /\ IsSome(req.body.email)
         /\ AddressedBefore # {}
         /\ HoldersBefore(normalizeEmail(Get(req.body.email))) \ AddressedBefore # {} )
       => (resp.status = 409 /\ resp.error = "Email already exists" /\ Unchanged)

\* a PUT that would give a record the address, typed in mixed case, of another
C2_Witness ==
    /\ req.method = "PUT" /\ resp.status = 409
    /\ req.body.email = Some(MixedTestEmail)
    /\ Len(users) = 3

\* C3: a successful POST assigns an id greater than every id assigned
\* before, nextId never decreases, no two live records share an id and no
\* deleted id is held by a live record.
C3_IdsMonotone ==
    /\ (req.method = "POST" /\ resp.status = 201) =>
          /\ \A i \in prev.assigned : resp.data.id > i
          /\ \E k \in DOMAIN users : users[k].id = resp.data.id
    /\ req # NoRequest => nextId >= prev.nextId
    /\ \A i, j \in DOMAIN users : i # j => users[i].id # users[j].id
    /\ \A i \in DOMAIN users : users[i].id \notin deletedIds
    /\ \A i \in assigned : i < nextId

\* a record created after a record was deleted
C3_Witness ==
    /\ req.method = "POST" /\ resp.status = 201
    /\ prev.deletedIds # {}
    /\ Len(users) < resp.data.id

\* C5: once a DELETE of id i was answered 200, every later DELETE of i is
\* answered 404, whatever requests came in between.
C5_DeleteOnce ==
    ( /\ req.method = "DELETE"
      /\ ~isNaN(parseInt(req.id))
      /\ Get(parseInt(req.id)) \in prev.deletedIds )
    => resp.status = 404

\* a second DELETE of an id, with a POST since the first one
C5_Witness ==
    /\ req.method = "DELETE" /\ resp.status = 404
    /\ ~isNaN(parseInt(req.id))
    /\ Get(parseInt(req.id)) \in prev.deletedIds
    /\ nextId > SeedNextId

\* C6: after a POST answered 201 with record r, a GET of r.id with no PUT
\* or DELETE of that id in between is answered 200 with a record equal to r
\* in id, name, email, role and createdAt.
C6_RoundTrip ==
    req.method = "GET" =>
       \A r \in prev.posted :
          (~isNaN(parseInt(req.id)) /\ Get(parseInt(req.id)) = r.id) =>
             /\ resp.status = 200
             /\ resp.data.id = r.id
             /\ resp.data.name = r.name
             /\ resp.data.email = r.email
             /\ resp.data.role = r.role
             /\ resp.data.createdAt = r.createdAt

\* a GET of a created record after an older record was deleted
C6_Witness ==
    /\ req.method = "GET" /\ resp.status = 200
    /\ \E r \in prev.posted : r.id = resp.data.id
    /\ Len(users) < resp.data.id

(***************************************************************************)
(* Properties of single requests.                                          *)
(***************************************************************************)
\* the live records with role x, as positions in users
WithRole(x) == {i \in DOMAIN users : users[i].role = x}

\* C7: for role X in {user, admin}, every record in the data of
\* GET /users?role=X has role X, total is the number of live records with
\* role X, and without a limit none of them is left out; with no role
\* parameter total is the number of all live records.
C7_ListFilter ==
    req.method = "LIST" =>
       /\ \A x \in {"user", "admin"} :
             req.query.role = Some(x) =>
                /\ \A k \in DOMAIN resp.data : resp.data[k].role = x
                /\ resp.total = Cardinality(WithRole(x))
                /\ req.query.limit = None =>
                      \A i \in WithRole(x) :
                         \E k \in DOMAIN resp.data : resp.data[k] = users[i]
       /\ req.query.role = None => resp.total = Len(users)

\* two administrators listed while a record with the other role is live
C7_Witness ==
    /\ req.method = "LIST" /\ req.query.role = Some("admin")
    /\ req.query.limit = None
    /\ resp.total = 2
    /\ Len(users) = 3

\* C8: for a positive integer limit (50 when none is supplied), data is the
\* first min(total, limit) records of the role-filtered collection in
\* insertion order, and returned is the length of data and at most total.
C8_ListLimit ==
    ( /\ req.method = "LIST"
      /\ IsSome(req.query.limit) =>
            (~isNaN(parseInt(Get(req.query.limit))) /\ Get(parseInt(Get(req.query.limit))) > 0) )
    => LET limit == IF IsSome(req.query.limit)
                    THEN Get(parseInt(Get(req.query.limit))) ELSE DefaultLimit
           filtered == IF IsSome(req.query.role) /\ Get(req.query.role) # ""
                       THEN FilterRole(users, Get(req.query.role)) ELSE users
           m == IF Len(filtered) < limit THEN Len(filtered) ELSE limit
       IN /\ resp.total = Len(filtered)
          /\ resp.data = SubSeq(filtered, 1, m)
          /\ resp.returned = Len(resp.data)
          /\ resp.returned <= resp.total

\* a list cut by its limit
C8_Witness ==
    /\ req.method = "LIST" /\ req.query.limit = Some(<<"2">>)
    /\ resp.total = 3 /\ resp.returned = 2

C10_PostOrder ==
    req.method = "POST" =>
       /\ CreateErrors(req.body) # << >> =>
             /\ resp.status = 400
             /\ resp.details # << >>
             /\ \A k \in DOMAIN resp.details :
                   resp.details[k].param \in {"name", "email", "role"}
       /\ (CreateErrors(req.body) = << >>
           /\ HoldersBefore(normalizeEmail(Get(req.body.email))) # {}) =>
             resp.status = 409
       /\ (CreateErrors(req.body) = << >>
           /\ HoldersBefore(normalizeEmail(Get(req.body.email))) = {}) =>
             /\ resp.status = 201
             /\ users = Append(prev.users, resp.data)
       /\ resp.status = 400 => Unchanged
       /\ resp.status \in {400, 409, 201}

\* a one-letter name with the seed administrator's address
C10_Witness ==
    /\ req.method = "POST"
    /\ req.body.name = Some(<<"A">>)
    /\ req.body.email = Some(AdminEmail)
    /\ resp.status = 400

(***************************************************************************)
(* Requests in flight together.                                            *)
(***************************************************************************)
Answered == {i \in DOMAIN inflight : inflight[i].pc = "done"}

\* the orders in which the requests of S can be served one after the other
Orders(S) ==
    {o \in [1..Cardinality(S) -> S] : \A i, j \in DOMAIN o : i # j => o[i] # o[j]}

\* the store after serving the requests of order o one at a time from st,
\* and whether each got the response it has in inflight
RECURSIVE Replay(_, _)
Replay(st, o) ==
    IF o = << >> THEN [users |-> st.users, nextId |-> st.nextId, ok |-> TRUE]
    ELSE LET out == Serve(st, inflight[Head(o)].rq, inflight[Head(o)].t) IN
         IF out.resp # inflight[Head(o)].resp
         THEN [users |-> st.users, nextId |-> st.nextId, ok |-> FALSE]
         ELSE Replay([users |-> out.users, nextId |-> out.nextId], Tail(o))

SamePost(i, j) ==
    /\ inflight[i].rq.method = "POST" /\ inflight[j].rq.method = "POST"
    /\ CreateErrors(inflight[i].rq.body) = << >>
    /\ CreateErrors(inflight[j].rq.body) = << >>
    /\ normalizeEmail(Get(inflight[i].rq.body.email))
          = normalizeEmail(Get(inflight[j].rq.body.email))

IsInteger(s) ==
    LET d == IF s # << >> /\ s[1] \in {"-", "+"} THEN Tail(s) ELSE s
    IN d # << >> /\ \A k \in DOMAIN d : IsDigit(d[k])

\* the answer of a PUT as the four cases fix it, isInt telling whether the
\* :id of the request counts as an integer
PutStatus(isInt) ==
    LET valid == UpdateErrors(req.body) = << >>
        exists == isInt /\ AddressedBefore # {}
        collides == /\ IsSome(req.body.email)
                    /\ HoldersBefore(normalizeEmail(Get(req.body.email)))
                          \ AddressedBefore # {}
    IN /\ (~isInt \/ ~valid) => resp.status = 400
       /\ (isInt /\ valid /\ ~exists) => resp.status = 404
       /\ resp.status = 409 => (exists /\ collides)
       /\ (isInt /\ valid /\ exists /\ ~collides) => resp.status = 200
       /\ (isInt /\ valid /\ exists /\ IsSome(req.body.email)
           /\ \A i \in AddressedBefore :
                 prev.users[i].email = normalizeEmail(Get(req.body.email)))
          => resp.status = 200

\* C11: a PUT is answered 400 whenever the id is not an integer or a
\* supplied field fails partial validation, 404 when the id is an integer no
\* live record has and the body is valid, 409 only when the id exists and
\* the supplied email is held by a different live record, 200 otherwise,
\* also when the supplied email is the record's own.
C11_PutStatus ==
    req.method = "PUT" => PutStatus(IsInteger(req.id))

\* the same four cases with the id read as parseInt reads it
C11_PutStatusParsed ==
    req.method = "PUT" => PutStatus(~isNaN(parseInt(req.id)))

\* PUT /users/2abc with a valid body, served as a PUT of record 2
C11_Witness ==
    /\ req.method = "PUT" /\ req.id = <<"2","a","b","c">>
    /\ UpdateErrors(req.body) = << >>
    /\ resp.status = 200 /\ resp.data.id = 2

\* C12: a PUT answered 200 changes, in the addressed record, only the
\* fields among name, email and role that the body supplies, and sets
\* updatedAt; the record's id, createdAt and position, every other record
\* and nextId are as before.
C12_PutFrame ==
    (req.method = "PUT" /\ resp.status = 200) =>
       /\ nextId = prev.nextId
       /\ Len(users) = Len(prev.users)
       /\ Cardinality(AddressedBefore) = 1
       /\ \A k \in DOMAIN prev.users :
             IF k \in AddressedBefore
             THEN /\ users[k].id = prev.users[k].id
                  /\ users[k].createdAt = prev.users[k].createdAt
                  /\ users[k].updatedAt = Some(now)
                  /\ users[k].name = IF IsSome(req.body.name)
                                     THEN Trim(Get(req.body.name))
                                     ELSE prev.users[k].name
                  /\ users[k].email = IF IsSome(req.body.email)
                                      THEN normalizeEmail(Get(req.body.email))
                                      ELSE prev.users[k].email
                  /\ users[k].role = IF IsSome(req.body.role)
                                     THEN Get(req.body.role)
                                     ELSE prev.users[k].role
                  /\ resp.data = users[k]
             ELSE users[k] = prev.users[k]

\* the seed administrator renamed by a PUT that supplies only a name
C12_Witness ==
    /\ req.method = "PUT" /\ resp.status = 200
    /\ req.body = [name |-> Some(PaddedName), email |-> None, role |-> None]
    /\ users[1].name = <<"A","l">> /\ users[1].role = "admin"
    /\ users[2] = SeedUsers[2]

C17_HealthAlways ==
    req.method = "HEALTH" =>
       /\ resp.status = 200
       /\ resp.success = TRUE
       /\ resp.health = "healthy"

\* the same for the requests the limiter passes on
C17_HealthUnderCeiling ==
    (req.method = "HEALTH" /\ hits <= RateMax) =>
       /\ resp.status = 200
       /\ resp.success = TRUE
       /\ resp.health = "healthy"

\* GET /health as the request after the hundredth of the window
C17_Witness ==
    /\ req.method = "HEALTH" /\ hits = RateMax + 1
    /\ resp = TooManyRequests

\* the body of response r is an envelope: an object with a boolean success
IsEnvelope(r) == "success" \in DOMAIN r /\ r.success \in BOOLEAN

\* C18: every response, on every path through the middleware chain (rate
\* limit, validation failure, unmatched route, handler exception), has a
\* JSON envelope body with a boolean success, and success is false with a
\* string error on every status that is not 2xx.
C18_EnvelopeAlways ==
    req # NoRequest =>
       /\ IsEnvelope(resp)
       /\ resp.status \notin 200..299 =>
             (resp.success = FALSE /\ "error" \in DOMAIN resp)

\* the same for the requests the limiter passes on
C18_EnvelopeUnderCeiling ==
    (req # NoRequest /\ hits <= RateMax) =>
       /\ IsEnvelope(resp)
       /\ resp.status \notin 200..299 =>
             (resp.success = FALSE /\ "error" \in DOMAIN resp)

\* a request refused by the limiter: a 429 whose body is a line of text
C18_Witness ==
    /\ req.method = "LIST" /\ resp.status = 429
    /\ "success" \notin DOMAIN resp /\ "text" \in DOMAIN resp

(***************************************************************************)
(* Properties of the browser-side wrapper.                                 *)
(***************************************************************************)
\* the wrapper's validation, full or partial, finds no fault with the name
ClientAcceptsName(d, isPartial) ==
    LET v == validateUserData(d, isPartial)
    IN v = None \/ Get(v).field # "name"

\* the userData of the call when it is an object with a name
NamedData ==
    IF /\ call.op \in {"createUser", "updateUser"}
       /\ call.userData # None
       /\ IsSome(Get(call.userData).name)
    THEN {Get(call.userData)}
    ELSE {}

\* C15: the server validators and the client validateUserData both accept a
\* name whose trimmed length is exactly 2 or exactly 50 and both reject one
\* whose trimmed length is 1 or 51.
C15_NameBoundary ==
    \A d \in NamedData :
       LET n == Len(Trim(Get(d.name))) IN
       /\ n \in {2, 50} =>
             /\ NameError(d) = << >>
             /\ ClientAcceptsName(d, FALSE) /\ ClientAcceptsName(d, TRUE)
             /\ (wire.kind = "response" /\ wire.resp.status = 400 /\ IsJson(wire.resp)
                 /\ "details" \in DOMAIN wire.resp) =>
                   \A k \in DOMAIN wire.resp.details :
                      wire.resp.details[k].param # "name"
       /\ n \in {1, 51} =>
             /\ NameError(d) # << >>
             /\ ~ClientAcceptsName(d, FALSE) /\ ~ClientAcceptsName(d, TRUE)
             /\ wire = NoWire
             /\ settled.kind = "rejected" /\ settled.error.status = 400

\* createUser with a name of exactly 50 characters, created by the server
C15_Witness ==
    /\ call.op = "createUser" /\ settled.kind = "resolved"
    /\ \E d \in NamedData : Len(Trim(Get(d.name))) = 50
    /\ resp.status = 201 /\ Len(users[Len(users)].name) = 50

\* C19: every operation of the wrapper either resolves with the parsed
\* success envelope or rejects with an ApiError carrying message and
\* status; no other exception reaches the caller.
C19_OnlyApiError ==
    call # NoCall =>
       \/ /\ settled.kind = "resolved"
          /\ IsEnvelope(settled.data) /\ settled.data.success = TRUE
       \/ /\ settled.kind = "rejected"
          /\ settled.error.name = "ApiError"
          /\ {"message", "status"} \subseteq DOMAIN settled.error

\* the same for the calls whose userData is an object
C19_OnlyApiErrorOnObjects ==
    (call # NoCall /\ ("userData" \in DOMAIN call => call.userData # None)) =>
       \/ /\ settled.kind = "resolved"
          /\ IsEnvelope(settled.data) /\ settled.data.success = TRUE
       \/ /\ settled.kind = "rejected"
          /\ settled.error.name = "ApiError"
          /\ {"message", "status"} \subseteq DOMAIN settled.error

\* createUser(null): the promise is rejected with a TypeError
C19_Witness ==
    /\ call.op = "createUser" /\ call.userData = None
    /\ settled = Rejected(TypeError)
    /\ wire = NoWire

\* the statuses of an ApiError against what came over the network
StatusFaithful ==
    /\ (settled.kind = "rejected" /\ settled.error.name = "ApiError"
        /\ settled.error.status = 0) => wire = FetchFailed
    /\ (wire.kind = "response" /\ ~Ok(wire.resp)) =>
          /\ settled.kind = "rejected"
          /\ settled.error.name = "ApiError"
          /\ settled.error.status = wire.resp.status

\* C20: an ApiError with status 0 is produced only when no HTTP response
\* was received; when the server answered with a status S that is not a
\* success, the wrapper rejects with an ApiError of status S, a 429 of the
\* limiter included.
C20_StatusZeroOnlyOffline ==
    call # NoCall => StatusFaithful

\* the same for the requests the limiter passes on
C20_StatusUnderCeiling ==
    (call # NoCall /\ hits <= RateMax) => StatusFaithful

\* the limiter's 429 reaches the caller as a network error of status 0
C20_Witness ==
    /\ call.op = "getUsers"
    /\ wire.kind = "response" /\ wire.resp.status = 429
    /\ settled = Rejected(NetworkError)

\* the local rejection of a payload whose first violation is v
RejectedLocally(v) ==
    /\ settled.kind = "rejected"
    /\ settled.error.name = "ApiError"
    /\ settled.error.status = 400
    /\ settled.error.details = Some(<<v>>)
    /\ wire = NoWire
    /\ req = NoRequest

Violates(d, isPartial, field) ==
    CASE field = "name" ->
           \/ ~isPartial /\ d.name = None
           \/ IsSome(d.name) /\ ~(Len(Trim(Get(d.name))) \in NameMin..NameMax)
      [] field = "email" ->
           \/ ~isPartial /\ d.email = None
           \/ IsSome(d.email) /\ ~emailRegex(Get(d.email))
      [] field = "role" ->
           IsSome(d.role) /\ Get(d.role) \notin ValidRoles

RuleOrder == <<"name", "email", "role">>

\* C22: validateUserData returns null exactly when no rule is violated and
\* otherwise one violation, that of the first violated rule in the order
\* name, email, role; in the full mode a missing name or e-mail is a
\* violation, in the partial mode only supplied fields are checked.
C22_FirstViolation ==
    call.op = "validateUserData" =>
       LET d == call.userData
           violated == {i \in DOMAIN RuleOrder : Violates(d, call.isPartial, RuleOrder[i])}
       IN /\ settled.kind = "returned"
          /\ (settled.value = None) <=> (violated = {})
          /\ settled.value # None =>
                /\ Len(settled.value) = 1
                /\ DOMAIN Get(settled.value) = {"field", "message"}
                /\ \E i \in violated :
                      /\ \A j \in violated : i <= j
                      /\ Get(settled.value).field = RuleOrder[i]

\* a payload that breaks all three rules is answered with the name violation,
\* and in the partial mode a payload with only a bad role with the role one
C22_Witness ==
    /\ call.op = "validateUserData"
    /\ \/ /\ ~call.isPartial
          /\ call.userData = [name |-> Some(<<"A">>), email |-> Some(BadEmail),
                              role |-> Some("guest")]
          /\ Get(settled.value).field = "name"
       \/ /\ call.isPartial
          /\ call.userData = [name |-> None, email |-> None, role |-> Some("guest")]
          /\ Get(settled.value).field = "role"

\* the server answered the call with 400 'Validation failed'
AnsweredValidationFailed ==
    /\ wire.kind = "response"
    /\ wire.resp.status = 400
    /\ wire.resp.error = "Validation failed"

\* C23: every payload validateUserData accepts (full mode for createUser,
\* partial mode for updateUser) is accepted by the validators of the
\* server for POST respectively PUT, so that no request passes the check
\* of the client and is then answered 400 'Validation failed'.
C23_ClientImpliesServer ==
    /\ (/\ call.op = "createUser" /\ call.userData # None
        /\ validateUserData(Get(call.userData), FALSE) = None)
       => /\ CreateErrors(Get(call.userData)) = << >>
          /\ ~AnsweredValidationFailed
    /\ (/\ call.op = "updateUser" /\ call.userData # None
        /\ validateUserData(Get(call.userData), TRUE) = None)
       => /\ UpdateErrors(Get(call.userData)) = << >>
          /\ ~AnsweredValidationFailed

\* the same for the payloads whose address has a last label of two
\* letters or more
C23_ClientImpliesServerLongTld ==
    (/\ call.op \in {"createUser", "updateUser"} /\ call.userData # None
     /\ validateUserData(Get(call.userData), call.op = "updateUser") = None
     /\ Get(call.userData).email # Some(ShortTldEmail))
    => /\ ~AnsweredValidationFailed
       /\ (IF call.op = "createUser" THEN CreateErrors(Get(call.userData))
           ELSE UpdateErrors(Get(call.userData))) = << >>

\* createUser({name: ' Al ', email: 'a@b.c'}) passed the check of the
\* client, was sent, and came back as 400 'Validation failed'
C23_Witness ==
    /\ call.op = "createUser" /\ call.userData # None
    /\ Get(call.userData).email = Some(ShortTldEmail)
    /\ validateUserData(Get(call.userData), FALSE) = None
    /\ AnsweredValidationFailed
    /\ settled.kind = "rejected" /\ settled.error.status = 400

\* statuses 500 and above form one class, every other status its own
StatusClass(s) == IF s >= 500 THEN 500 ELSE s

\* getUserMessage returned v for the error e, where the statuses of T are
\* those said to have a template of their own
MessageRule(e, v, T) ==
    /\ e.status \in T =>
          /\ \A m \in PureMessages : getUserMessage([e EXCEPT !.message = m]) = v
          /\ \A f \in PureErrors :
                f.status \in T =>
                   (getUserMessage(f) = v <=> StatusClass(f.status) = StatusClass(e.status))
    /\ e.status = 400 =>
          LET first == IF e.details # None /\ Len(Get(e.details)) > 0
                       THEN OrElse(Field(Get(e.details)[1], "msg"),
                                   Field(Get(e.details)[1], "message"))
                       ELSE ""
          IN v = (IF first # "" THEN first ELSE e.message)

\* C24: getUserMessage maps status 0, 404, 409, 429 and every status of
\* 500 and above to a template of its own that does not depend on the raw
\* message; for status 400 it gives the message of the first detail when
\* there are details and the raw message otherwise.
C24_Templates ==
    call.op = "getUserMessage" =>
       MessageRule(call.error, settled.value,
                   {s \in PureStatuses : s \in {0, 404, 409, 429} \/ s >= 500})

\* the same with 500 as the only templated status of its class
C24_TemplatesExactStatuses ==
    call.op = "getUserMessage" =>
       MessageRule(call.error, settled.value, {0, 404, 409, 429, 500})

\* for an error of status 503 the raw message came back
C24_Witness ==
    /\ call.op = "getUserMessage"
    /\ call.error.status = 503
    /\ call.error.message = "Request failed"
    /\ settled.value = "Request failed"

\* get(key) of an entry written at time t returned its value and kept it
\* when Fresh(clock - t), and otherwise removed it and returned null
GetRule(Fresh(_)) ==
    (call.op = "cache.get" /\ call.key \in DOMAIN call.cache) =>
       LET item == call.cache[call.key] IN
       IF Fresh(clock - item.timestamp)
       THEN settled = Returned(Some(item.value)) /\ cache = call.cache
       ELSE settled = Returned(None) /\ cache = MapDelete(call.cache, call.key)

AgeBelowTtl(age) == age < Ttl

AgeUpToTtl(age) == age <= Ttl

\* C25: for a key written at time t by ApiCache.set, get(key) at time now
\* returns the stored value iff now - t < ttl; otherwise (now - t >= ttl) it
\* removes the entry and returns null.
C25_FreshBelowTtl == GetRule(AgeBelowTtl)

\* the same with the entry still returned at the age of exactly ttl
C25_FreshUpToTtl == GetRule(AgeUpToTtl)

\* an entry of age exactly ttl was returned and kept
C25_Witness ==
    /\ call.op = "cache.get" /\ call.key \in DOMAIN call.cache
    /\ clock - call.cache[call.key].timestamp = Ttl
    /\ settled = Returned(Some(call.cache[call.key].value))
    /\ call.key \in DOMAIN cache

\* entries of an age below, at and above ttl were looked up
C25_AgesSeen ==
    /\ call.op = "cache.get" /\ call.key \in DOMAIN call.cache
    /\ clock - call.cache[call.key].timestamp = Ttl + 1
    /\ settled = Returned(None)
    /\ call.key \notin DOMAIN cache

Mutations == {"createUser", "updateUser", "deleteUser"}

\* C26: the caching wrapper clears its cache exactly when a mutation
\* succeeds: when createUser, updateUser or deleteUser resolves the cache
\* holds no entry; when it rejects (local validation, a 4xx answer, a
\* network failure) the entries are left as they were; getUsers leaves the
\* entries of the other keys alone.
C26_ClearedOnSuccessOnly ==
    /\ call.op \in Mutations =>
          /\ settled.kind \in {"resolved", "rejected"}
          /\ settled.kind = "resolved" => cache = NoCache
          /\ settled.kind = "rejected" => cache = call.cache
    /\ (call.op = "getUsers" /\ "cache" \in DOMAIN call) =>
          \A k \in DOMAIN call.cache \ {call.filters} :
             k \in DOMAIN cache /\ cache[k] = call.cache[k]

\* a mutation that resolved emptied a cache that held an entry
C26_Witness ==
    /\ call.op \in Mutations
    /\ call.cache # NoCache
    /\ settled.kind = "resolved"
    /\ cache = NoCache

\* a mutation answered 409 left the entries in the cache
C26_WitnessRejected ==
    /\ call.op = "createUser"
    /\ call.cache # NoCache
    /\ wire.kind = "response" /\ wire.resp.status = 409
    /\ settled.kind = "rejected"
    /\ cache = call.cache

\* getUsers(f) is called again less than ttl after its response was last
\* fetched
CalledAgainInWindow ==
    /\ call.op = "getUsers" /\ "cache" \in DOMAIN call
    /\ call.filters \in DOMAIN fetched
    /\ clock - fetched[call.filters].at < Ttl

C27_WitnessFresh ==
    /\ CalledAgainInWindow
    /\ fetched[call.filters].mutated
    /\ wire.kind = "response"
    /\ settled.kind = "resolved"
    /\ settled.data # fetched[call.filters].data

\* the handler that ran last was a submission resuming after its createUser
\* or updateUser settled as s
SubmitSettled(s) ==
    /\ call.op = "resume"
    /\ call.arg.task.awaits \in {"createUser", "updateUser"}
    /\ call.arg.settlement = s

\* the handler that ran last called showUserModal
RanShowUserModal ==
    \/ call.op = "showUserModal"
    \/ /\ call.op = "resume"
       /\ call.arg.task.awaits = "getUser"
       /\ call.arg.settlement = "resolved"

\* C28: the create/edit dialog is always closed, open for a new user or
\* open for the edit of an id; it opens only through showUserModal, goes to
\* closed on cancel, close button, Escape, backdrop click or a successful
\* submit (and on nothing else), stays as it is when a submit fails, and
\* editingUserId is null whenever the dialog is closed.
C28_ModalMachine ==
    /\ ui.modal \in {"closed", "open"}
    /\ ui.editingUserId \in Opt(UiIds)
    /\ ui.modal = "closed" => ui.editingUserId = None
    /\ call # NoCall =>
          /\ (call.ui.modal = "closed" /\ ui.modal = "open") => RanShowUserModal
          /\ (call.ui.modal = "open" /\ ui.modal = "closed") =>
                call.op = "hideUserModal" \/ SubmitSettled("resolved")
          /\ call.op = "hideUserModal" => ui.modal = "closed"
          /\ SubmitSettled("resolved") => ui.modal = "closed"
          /\ SubmitSettled("rejected") =>
                /\ ui.modal = call.ui.modal
                /\ ui.editingUserId = call.ui.editingUserId

\* the updateUser of a submission was rejected and the dialog is still open
\* on the edit of user 1
C28_Witness ==
    /\ SubmitSettled("rejected")
    /\ call.arg.task.awaits = "updateUser"
    /\ ui.modal = "open"
    /\ ui.editingUserId = Some(1)

\* a dialog open on an edit was closed by a submission that resolved
C28_WitnessClosed ==
    /\ SubmitSettled("resolved")
    /\ call.ui.modal = "open" /\ call.ui.editingUserId = Some(2)
    /\ ui.modal = "closed" /\ ui.editingUserId = None

\* the submissions of the dialog on the page whose createUser or updateUser
\* has not settled
SubmissionsInFlight(ts) ==
    {i \in DOMAIN ts : ts[i].awaits \in {"createUser", "updateUser"} /\ ~ts[i].detached}

\* C29: at most one form submission is in flight at any time: a
\* handleFormSubmit invoked while an earlier createUser or updateUser call
\* from the same dialog has not settled issues no second createUser or
\* updateUser request.
C29_OneSubmission ==
    /\ Cardinality(SubmissionsInFlight(tasks)) <= 1
    /\ (call.op = "handleFormSubmit" /\ SubmissionsInFlight(call.tasks) # {}) =>
          tasks = call.tasks

\* handleFormSubmit ran while the createUser of the same dialog was pending
\* and the save button disabled, and a second createUser is in flight
C29_Witness ==
    /\ call.op = "handleFormSubmit"
    /\ SubmissionsInFlight(call.tasks) # {}
    /\ call.ui.saving /\ ~call.ui.isLoading
    /\ Len(tasks) = Len(call.tasks) + 1
    /\ \A i \in DOMAIN tasks : tasks[i].awaits = "createUser" /\ ~tasks[i].detached

\* the loadUsers calls that have not finished: waiting on getUsers, or on
\* the health check that follows a failed getUsers
LoadsInFlight(ts) == {i \in DOMAIN ts : ts[i].awaits \in {"getUsers", "checkHealth"}}

\* the handler that ran last called loadUsers
RanLoadUsers ==
    \/ call.op \in {"loadUsers", "handleFilterChange"}
    \/ SubmitSettled("resolved")

\* C30: at most one list refresh is in flight at any time: a loadUsers call
\* made while an earlier loadUsers has not finished returns without
\* issuing a getUsers request and without cancelling or altering the
\* pending one.
C30_OneRefresh ==
    /\ Cardinality(LoadsInFlight(tasks)) <= 1
    /\ (RanLoadUsers /\ LoadsInFlight(call.tasks) # {}) =>
          /\ Cardinality(LoadsInFlight(tasks)) = 1
          /\ \A i \in LoadsInFlight(call.tasks) :
                \E j \in LoadsInFlight(tasks) : tasks[j] = call.tasks[i]

\* the filter was changed to "admin" while the list without filter was
\* being fetched: no second request, the pending one still without filter
C30_Witness ==
    /\ call.op = "handleFilterChange" /\ call.arg = "admin"
    /\ LoadsInFlight(call.tasks) # {}
    /\ tasks = call.tasks
    /\ \E i \in DOMAIN tasks : tasks[i].awaits = "getUsers" /\ tasks[i].arg = ""

\* the calls that arrived after call i with the key of call i
SameKeyAfter(i) ==
    { j \in (i + 1)..Len(debounced) : debounced[j].key = debounced[i].key }

\* the calls that arrived before call i with the key of call i
SameKeyBefore(i) == { j \in 1..(i - 1) : debounced[j].key = debounced[i].key }

\* the next call with the key of call i arrived less than Delay after call i
FollowedWithinDelay(i) ==
    /\ SameKeyAfter(i) # {}
    /\ LET j == CHOOSE j \in SameKeyAfter(i) : \A k \in SameKeyAfter(i) : j <= k
       IN  debounced[j].at - debounced[i].at < Delay

\* C37: among calls of debouncedRequest with one key, a call that is followed
\* less than Delay later by the next call of that key never has its requestFn
\* executed (only the last call of such a run executes requestFn), whatever the
\* requestFn of earlier calls of the key is doing
C37_OnlyLastExecutes ==
    \A i \in 1..Len(debounced) : FollowedWithinDelay(i) => debounced[i].fn = "idle"

\* a call was followed within Delay by the next call of its key, and its
\* requestFn was executed all the same, as was that of the later call
C37_Witness ==
    \E i \in 1..Len(debounced) : \E j \in SameKeyAfter(i) :
       /\ FollowedWithinDelay(i)
       /\ debounced[i].fn # "idle"
       /\ debounced[j].fn # "idle"

\* the part of C37 that holds: the first call of a key is debounced by the
\* next one
C37_FirstCallDebounced ==
    \A i \in 1..Len(debounced) :
       FollowedWithinDelay(i) /\ SameKeyBefore(i) = {} => debounced[i].timer = "cleared"

C37_WitnessDebounced ==
    \E i \in 1..Len(debounced) : \E j \in SameKeyAfter(i) :
       /\ FollowedWithinDelay(i)
       /\ debounced[i].timer = "cleared"
       /\ debounced[j].fn = "settled"

\* C38: the promise returned by every call of debouncedRequest eventually
\* settles (resolves or rejects), also the promise of a call whose timer a
\* later call of the same key cleared, given that timers that are due fire and
\* every requestFn that was called settles
C38_EveryPromiseSettles ==
    \A i \in 1..MaxCalls :
       (Len(debounced) >= i) ~> (Len(debounced) >= i /\ debounced[i].promise # "pending")

\* a call whose timer was cleared, its promise pending, and nothing left to run
C38_Witness ==
    \E i \in 1..Len(debounced) :
       /\ debounced[i].timer = "cleared"
       /\ debounced[i].promise = "pending"
       /\ \A j \in 1..Len(debounced) : debounced[j].timer # "armed" /\ debounced[j].fn # "running"

\* the part of C38 that holds: the promise of a call settles unless its timer
\* is cleared
C38_UnclearedSettles ==
    \A i \in 1..MaxCalls :
       (Len(debounced) >= i)
          ~> (Len(debounced) >= i
              /\ (debounced[i].promise # "pending" \/ debounced[i].timer = "cleared"))

\* C36: isLoading is true exactly while a loadUsers call that passed its
\* guard has not reached the end of its finally block, and every such call
\* sets isLoading back to false in the end, whether getUsers resolves or
\* rejects, rendering fails, or the health check that follows a failure
\* fails, given that every request settles
C36_LoadingFlag ==
    /\ [](ui.isLoading <=> LoadsInFlight(tasks) # {})
    /\ ui.isLoading ~> ~ui.isLoading

\* a loadUsers ended after getUsers was rejected and the health check that
\* followed was rejected too: the error state is shown, isLoading is false
C36_Witness ==
    /\ call.op = "resume"
    /\ call.arg.task.awaits = "checkHealth"
    /\ call.arg.settlement = "rejected"
    /\ call.ui.isLoading
    /\ ~ui.isLoading
    /\ ui.error # None

\* a loadUsers ended after renderUsers threw on the list it was given
C36_WitnessRender ==
    /\ call.op = "resume"
    /\ call.arg.task.awaits = "getUsers"
    /\ call.arg.settlement = "resolved"
    /\ ~Renders(ui.currentUsers)
    /\ call.ui.isLoading
    /\ ~ui.isLoading

\* the step is the handler resuming after the promise of operation op
\* settled as kind
Resumed(op, kind) ==
    /\ call'.op = "resume"
    /\ call'.arg.task = op
    /\ call'.arg.settlement = kind

\* the step opened the delete confirmation, or set its data-user-id
OpensConfirm ==
    \/ ui.confirm = "closed" /\ ui'.confirm = "open"
    \/ ui'.targetId # ui.targetId

\* the deleteUser calls waiting for their response
DeletesInFlight(ts) == {i \in DOMAIN ts : ts[i].awaits = "deleteUser"}

C31_WitnessOpened ==
    /\ call.op = "showDeleteConfirm"
    /\ call.arg = 1
    /\ ui.confirm = "open"
    /\ ui.targetId = Some(1)

\* showDeleteConfirm(1) ran on a list fetched after user 1 was deleted, and
\* the confirmation stayed closed
C31_WitnessRefused ==
    /\ call.op = "showDeleteConfirm"
    /\ call.arg = 1
    /\ ui.listStamp > lastMutation /\ lastMutation > 0
    /\ 1 \notin Ids(ui.currentUsers)
    /\ ui.confirm = "closed"

ListOutdated ==
    \/ \E k \in DOMAIN ui.currentUsers : ui.currentUsers[k].id \notin Ids(users)
    \/ \E k \in DOMAIN users :
          /\ ui.listFilter = "" \/ users[k].role = ui.listFilter
          /\ users[k].id \notin Ids(ui.currentUsers)

\* C33: once a create, update or delete has resolved, no getUsers call made
\* afterwards returns a response that the server produced before it applied
\* that mutation: the stamp of the response a getUsers promise resolves with
\* is above the stamp of every mutation that had resolved when getUsers was
\* called
C33_NoStaleResponse ==
    call # NoCall /\ "returned" \in DOMAIN call =>
       \A k \in DOMAIN call.returned : call.returned[k].stamp > call.returned[k].after

\* getUsers was called after a mutation had resolved and returned, from the
\* cache and without a request, a response from before that mutation: the
\* list is not what the server holds
C33_Witness ==
    /\ call # NoCall /\ "returned" \in DOMAIN call
    /\ call.sent = << >>
    /\ \E k \in DOMAIN call.returned : call.returned[k].stamp < call.returned[k].after
    /\ ListOutdated

\* the part of C33 that holds: a getUsers that sends a request returns a
\* response from after every mutation that had resolved
C33_FreshWhenSent ==
    call # NoCall /\ "returned" \in DOMAIN call =>
       \A k \in DOMAIN call.returned :
          call.returned[k].stamp = hits => call.returned[k].stamp > call.returned[k].after

\* C34: whenever no loadUsers is in flight, the list in currentUsers (once
\* one was fetched, and when the error state is not shown) was fetched with
\* the role filter that currentFilter holds
C34_ListMatchesFilter ==
    (LoadsInFlight(tasks) = {} /\ ui.listStamp > 0 /\ ui.error = None) =>
       ui.listFilter = ui.currentFilter

\* nothing is in flight, no error is shown, the filter is "admin" and the
\* list is the one fetched without filter: it shows user 2, who is no
\* administrator
C34_Witness ==
    /\ tasks = << >>
    /\ ui.error = None
    /\ ui.currentFilter = "admin"
    /\ ui.listFilter = ""
    /\ \E k \in DOMAIN ui.currentUsers : ui.currentUsers[k].role = "user"

\* the part of C34 that holds: the list was fetched with the filter that
\* was current when its loadUsers started, the argument of the getUsers call
C34_FilterOfTheCall ==
    [][\A i \in DOMAIN tasks :
          (tasks[i].awaits = "getUsers" /\ Resumed("getUsers", "resolved")) =>
             ui'.listFilter = tasks[i].arg]_vars

\* C35: after a create, update or delete of the page has resolved, the page
\* eventually holds a list that the server produced after that mutation (or
\* shows the error state of a load that failed), given that every response
\* arrives
C35_ListCatchesUp ==
    \A n \in 1..MaxRequests :
       (lastMutation = n) ~> (ui.listStamp > n \/ ui.error # None)

\* nothing is in flight, no error is shown, and the list is older than the
\* last mutation that resolved: it is not what the server holds
C35_Witness ==
    /\ tasks = << >>
    /\ ui.error = None
    /\ 0 < ui.listStamp /\ ui.listStamp < lastMutation
    /\ ListOutdated

\* the part of C35 that holds: when no loadUsers is in flight as the
\* mutation resolves, the page goes on to a list from after it, or to the
\* error state
C35_CatchesUpWhenIdle ==
    \A n \in 1..MaxRequests :
       (lastMutation = n /\ call.op = "resume" /\ Len(call.sent) = 1)
          ~> (ui.listStamp > n \/ ui.error # None)

====
